---- MODULE Spec2Model ----
(***************************************************************************)
(* Model of the autocompletion engine: the per-source state machine        *)
(* (ActiveSource / ActiveResult), the aggregate state (CompletionState,    *)
(* CompletionDialog) and the query scheduler (completionPlugin).           *)
(*                                                                         *)
(* The aggregate state is modelled from the first CompletionState /        *)
(* CompletionDialog of src/src/state.ts; the per-source records carry      *)
(* explicitPos, the field the scheduler in src/src/closebrackets.ts        *)
(* reads and writes, so ActiveSource / ActiveResult are modelled from the  *)
(* explicitPos classes of src/src/state.ts.                                *)
(***************************************************************************)
EXTENDS Integers, Sequences, FiniteSets, TLC

(***************************************************************************)
(* Bounds of the model.                                                    *)
(***************************************************************************)
NumSources == 2
MaxDocLen == 2
MaxBacklog == 1
MaxOrphans == 1
MaxContexts == 2
MaxListeners == 2
MaxOptions == 2
MaxLine == 3
MaxComposition == 3
MaxTimers == 2

(***************************************************************************)
(* Configuration (the defaults of completionConfig).                       *)
(***************************************************************************)
activateOnTyping == TRUE
selectOnOpen == TRUE
activateOnCompletion == FALSE
MaxUpdateCount == 50

Sources == 1 .. NumSources
override == [i \in 1 .. NumSources |-> i]
Chars == {"a"}

Min(a, b) == IF a < b THEN a ELSE b

(***************************************************************************)
(* Host primitives: a change set holding at most one replacement           *)
(* [from, to) -> ins inserted characters.                                  *)
(***************************************************************************)
NoChange == [empty |-> TRUE, from |-> 0, to |-> 0, ins |-> 0]

Change(f, t, n) == [empty |-> FALSE, from |-> f, to |-> t, ins |-> n]

\* ChangeDesc.mapPos(pos, assoc) in MapMode.Simple
mapPos(ch, pos, assoc) ==
  IF ch.empty \/ pos < ch.from THEN pos
  ELSE IF ch.to > pos \/ (ch.to = pos /\ assoc < 0 /\ ch.to = ch.from)
       THEN (IF pos = ch.from \/ assoc < 0 THEN ch.from ELSE ch.from + ch.ins)
       ELSE ch.from + ch.ins + (pos - ch.to)

\* ChangeDesc.touchesRange(from, to)
touchesRange(ch, from, to) == ~ch.empty /\ ch.from <= to /\ ch.to >= from

\* EditorState.sliceDoc(from, to)
sliceDoc(d, from, to) ==
  LET f == IF from < 0 THEN 0 ELSE Min(from, Len(d))
      t == IF to < 0 THEN 0 ELSE Min(to, Len(d))
  IN IF f >= t THEN << >> ELSE SubSeq(d, f + 1, t)

\* the document after a change that inserts the text txt
applyChange(d, ch, txt) ==
  IF ch.empty THEN d
  ELSE SubSeq(d, 1, ch.from) \o txt \o SubSeq(d, ch.to + 1, Len(d))

(***************************************************************************)
(* Completion results. validFor is absent ("none") or the expression       *)
(* /^\w*$/ ("word").                                                       *)
(***************************************************************************)
NoTo == -1

\* update is absent ("none") or one of three functions: "keep" returns the
\* current result over the new span, "null" returns null, "explicit"
\* returns the current result when the context is explicit and null otherwise
NoRes ==
  [id |-> 0, from |-> 0, to |-> NoTo, options |-> << >>, validFor |-> "none", filter |-> TRUE, update |-> "none"]

\* the value of an optional property that is not given
Absent == "undefined"

\* the rank of a section that gives none as a number (1e9 in the comparator)
NoRank == 1000000000

\* Completion.section when the completion has none. A section is a name with
\* a rank that is a number, absent (NoRank) or "dynamic" (rank NoRank, dynamic set).
NoSection == [name |-> Absent, rank |-> NoRank, dynamic |-> FALSE]

\* a completion with a label, a boost and a section; nothing else given
CompletionIn(l, b, sec) ==
  [label |-> l, boost |-> b, section |-> sec,
   detail |-> Absent, type |-> Absent, apply |-> Absent, info |-> Absent]

Completion(l) == CompletionIn(l, 0, NoSection)

\* the options of the sources: source 1 offers a and ab, the others b
optionsOf(src) ==
  IF src = 1 THEN <<Completion(<<"a">>), Completion(<<"a", "b">>)>> ELSE <<Completion(<<"b">>)>>

\* RegExp.test / validFor(text) for the modelled predicates
testValidFor(validFor, text) ==
  validFor = "word" /\ \A k \in 1 .. Len(text) : text[k] \in {"a", "b"}

\* checkValid(validFor, state, from, to)
checkValid(validFor, d, from, to) ==
  IF validFor = "none" THEN FALSE
  ELSE testValidFor(validFor, sliceDoc(d, from, to))

(***************************************************************************)
(* Transactions and effects.                                               *)
(***************************************************************************)
NoEffects == << >>

startCompletionEffect(explicit) ==
  [type |-> "start", explicit |-> explicit, value |-> 0, active |-> << >>]

closeCompletionEffect ==
  [type |-> "close", explicit |-> FALSE, value |-> 0, active |-> << >>]

setActiveEffect(acts) ==
  [type |-> "setActive", explicit |-> FALSE, value |-> 0, active |-> acts]

setSelectedEffect(n) ==
  [type |-> "setSelected", explicit |-> FALSE, value |-> n, active |-> << >>]

\* a transaction: tr.startState (cursor), tr.state (document, cursor),
\* tr.changes, tr.selection (set or not), the user event and tr.effects
Transaction(sh, d, h, ch, sel, ev, effs) ==
  [startHead |-> sh, doc |-> d, head |-> h, changes |-> ch, selection |-> sel,
   event |-> ev, effects |-> effs]

docChanged(tr) == ~tr.changes.empty

(***************************************************************************)
(* Per-source state machine.                                               *)
(***************************************************************************)
ActiveSource(s, st, ep) ==
  [source |-> s, state |-> st, explicitPos |-> ep, result |-> NoRes, from |-> -1, to |-> -1]

ActiveResult(s, ep, res, from, to) ==
  [source |-> s, state |-> "Result", explicitPos |-> ep, result |-> res, from |-> from, to |-> to]

hasResult(a) == a.state = "Result"

isPending(a) == a.state = "Pending"

\* faulty variant of getUpdateType: a transaction that sets the selection
\* does not reset
getUpdateTypeNoReset(tr) ==
  IF tr.event = "input.complete" /\ activateOnCompletion THEN {"Activate", "Reset"}
  ELSE IF tr.event = "input.type" /\ activateOnTyping THEN {"Activate", "Typing"}
  ELSE IF tr.event = "input.type" THEN {"Typing"}
  ELSE IF tr.event = "delete.backward" THEN {"Backspacing"}
  ELSE IF docChanged(tr) THEN {"ResetIfTouching"}
  ELSE {}

\* the UpdateType bit set, as a set of flag names
\* getUpdateType(tr, conf) for a configuration with conf.activateOnTyping =
\* typing whose conf.activateOnCompletion answers completion
getUpdateTypeWith(tr, typing, completion) ==
  IF tr.event = "input.complete" /\ completion THEN {"Activate", "Reset"}
  ELSE IF tr.event = "input.type" /\ typing THEN {"Activate", "Typing"}
  ELSE IF tr.event = "input.type" THEN {"Typing"}
  ELSE IF tr.event = "delete.backward" THEN {"Backspacing"}
  ELSE IF tr.selection THEN {"Reset"}
  ELSE IF docChanged(tr) THEN {"ResetIfTouching"}
  ELSE {}

\* getUpdateType(tr, conf) for a configuration with conf.activateOnTyping = typing
getUpdateTypeIn(tr, typing) == getUpdateTypeWith(tr, typing, activateOnCompletion)

getUpdateType(tr) == getUpdateTypeIn(tr, activateOnTyping)

SimpleInteraction(type) == "Typing" \in type \/ "Backspacing" \in type

\* faulty variant of touches: only a change strictly inside the span of a
\* result touches it
touchesInside(a, tr) ==
  IF hasResult(a) THEN ~tr.changes.empty /\ tr.changes.from > a.from /\ tr.changes.to < a.to
  ELSE touchesRange(tr.changes, tr.head, tr.head)

\* ActiveSource.touches / ActiveResult.touches
touches(a, tr) ==
  IF hasResult(a) THEN touchesRange(tr.changes, a.from, a.to)
  ELSE touchesRange(tr.changes, tr.head, tr.head)

\* faulty variant of map: the span of a result is not moved
mapNoShift(a, ch) ==
  IF hasResult(a) THEN a
  ELSE IF ch.empty \/ a.explicitPos < 0 THEN a
       ELSE ActiveSource(a.source, a.state, mapPos(ch, a.explicitPos, -1))

\* ActiveSource.map / ActiveResult.map (results carry no map function)
map(a, ch) ==
  IF hasResult(a)
  THEN IF ch.empty THEN a
       ELSE ActiveResult(a.source, IF a.explicitPos < 0 THEN -1 ELSE mapPos(ch, a.explicitPos, -1),
                         a.result, mapPos(ch, a.from, -1), mapPos(ch, a.to, 1))
  ELSE IF ch.empty \/ a.explicitPos < 0 THEN a
       ELSE ActiveSource(a.source, a.state, mapPos(ch, a.explicitPos, -1))

\* faulty variant of updateFor: to is mapped with the default association, so
\* text typed at the end of the span is left outside of it
updateForToBefore(a, tr, type) ==
  IF ~hasResult(a) \/ ~SimpleInteraction(type) THEN map(a, tr.changes)
  ELSE LET from == mapPos(tr.changes, a.from, -1)
           to == mapPos(tr.changes, a.to, -1)
           pos == tr.head
       IN IF (IF a.explicitPos < 0 THEN pos <= from ELSE pos < a.from)
             \/ pos > to
             \/ ("Backspacing" \in type /\ tr.startHead = a.from)
          THEN ActiveSource(a.source, IF "Activate" \in type THEN "Pending" ELSE "Inactive", -1)
          ELSE LET explicitPos == IF a.explicitPos < 0 THEN -1 ELSE mapPos(tr.changes, a.explicitPos, -1)
               IN IF checkValid(a.result.validFor, tr.doc, from, to)
                  THEN ActiveResult(a.source, explicitPos, a.result, from, to)
                  ELSE ActiveSource(a.source, "Pending", explicitPos)

\* new CompletionContext(state, pos, explicit)
CompletionContext(pos, explicit) == [pos |-> pos, explicit |-> explicit]

\* result.update(result, from, to, context): NoRes stands for null
callUpdate(result, from, to, context) ==
  IF result.update = "keep" \/ (result.update = "explicit" /\ context.explicit)
  THEN [result EXCEPT !.from = from, !.to = to]
  ELSE NoRes

\* ActiveSource.updateFor / ActiveResult.updateFor: value is what it
\* returns, made the contexts it has created
updateForCall(a, tr, type) ==
  IF ~hasResult(a) \/ ~SimpleInteraction(type) THEN [value |-> map(a, tr.changes), made |-> << >>]
  ELSE LET from == mapPos(tr.changes, a.from, -1)
           to == mapPos(tr.changes, a.to, 1)
           pos == tr.head
       IN IF (IF a.explicitPos < 0 THEN pos <= from ELSE pos < a.from)
             \/ pos > to
             \/ ("Backspacing" \in type /\ tr.startHead = a.from)
          THEN [value |-> ActiveSource(a.source, IF "Activate" \in type THEN "Pending" ELSE "Inactive", -1),
                made |-> << >>]
          ELSE LET explicitPos == IF a.explicitPos < 0 THEN -1 ELSE mapPos(tr.changes, a.explicitPos, -1)
                   context == CompletionContext(pos, explicitPos >= 0)
                   result == callUpdate(a.result, from, to, context)
               IN IF checkValid(a.result.validFor, tr.doc, from, to)
                  THEN [value |-> ActiveResult(a.source, explicitPos, a.result, from, to), made |-> << >>]
                  ELSE IF a.result.update # "none"
                  THEN [value |-> IF result # NoRes
                                  THEN ActiveResult(a.source, explicitPos, result, result.from,
                                                    IF result.to # NoTo THEN result.to ELSE tr.head)
                                  ELSE ActiveSource(a.source, "Pending", explicitPos),
                        made |-> <<context>>]
                  ELSE [value |-> ActiveSource(a.source, "Pending", explicitPos), made |-> << >>]

\* faulty variant of updateFor: a result that is not continued degrades to
\* Inactive when the transaction does not activate, as a result left by the
\* cursor does
updateForDegrades(a, tr, type) ==
  LET value == updateForCall(a, tr, type).value
  IN IF hasResult(a) /\ SimpleInteraction(type) /\ isPending(value) /\ "Activate" \notin type
     THEN ActiveSource(a.source, "Inactive", -1) ELSE value

updateFor(a, tr, type) == updateForCall(a, tr, type).value

RECURSIVE findActive(_, _)
\* effect.value.find-last: the last record of acts for source s, or dflt
findActive(acts, dflt) ==
  IF acts = << >> THEN dflt
  ELSE findActive(Tail(acts), IF Head(acts).source = dflt.source THEN Head(acts) ELSE dflt)

\* faulty variant of applyEffects: only the first effect of the transaction
\* is applied
applyEffectsOnce(value, effs, tr) ==
  IF effs = << >> THEN value
  ELSE LET e == Head(effs)
       IN CASE e.type = "start" -> ActiveSource(value.source, "Pending", IF e.explicit THEN tr.head ELSE -1)
            [] e.type = "close" -> ActiveSource(value.source, "Inactive", -1)
            [] e.type = "setActive" -> findActive(e.active, value)
            [] OTHER -> value

RECURSIVE applyEffects(_, _, _)
\* the loop over tr.effects of ActiveSource.update
applyEffects(value, effs, tr) ==
  IF effs = << >> THEN value
  ELSE LET e == Head(effs)
           next == CASE e.type = "start" ->
                          ActiveSource(value.source, "Pending", IF e.explicit THEN tr.head ELSE -1)
                     [] e.type = "close" -> ActiveSource(value.source, "Inactive", -1)
                     [] e.type = "setActive" -> findActive(e.active, value)
                     [] OTHER -> value
       IN applyEffects(next, Tail(effs), tr)

\* the value of ActiveSource.update before updateFor is called on it
beforeUpdateFor(a, tr, type) ==
  LET v1 == IF "Reset" \in type \/ ("ResetIfTouching" \in type /\ touches(a, tr))
            THEN ActiveSource(a.source, "Inactive", -1) ELSE a
  IN IF "Activate" \in type /\ v1.state = "Inactive"
     THEN ActiveSource(a.source, "Pending", -1) ELSE v1

\* ActiveSource.update(tr, conf) where getUpdateType(tr, conf) is type
updateWith(a, tr, type) ==
  applyEffects(updateFor(beforeUpdateFor(a, tr, type), tr, type), tr.effects, tr)

\* the contexts that ActiveSource.update(tr, conf) creates
madeWith(a, tr, type) == updateForCall(beforeUpdateFor(a, tr, type), tr, type).made

\* ActiveSource.update(tr, conf)
update(a, tr) == updateWith(a, tr, getUpdateType(tr))

(***************************************************************************)
(* Matcher: fuzzy matching is a subsequence test; an exact match scores    *)
(* best, then a prefix match, then any other subsequence match, shorter    *)
(* labels first.                                                           *)
(***************************************************************************)
RECURSIVE IsSubseq(_, _)
IsSubseq(p, w) ==
  IF p = << >> THEN TRUE
  ELSE IF w = << >> THEN FALSE
  ELSE IF Head(p) = Head(w) THEN IsSubseq(Tail(p), Tail(w))
  ELSE IsSubseq(p, Tail(w))

IsPrefix(p, w) == Len(p) <= Len(w) /\ SubSeq(w, 1, Len(p)) = p

\* FuzzyMatcher.match(label): the label matches the pattern
FuzzyMatch(p, w) == IsSubseq(p, w)

\* FuzzyMatcher.match(label).score
FuzzyScore(p, w) ==
  IF p = w THEN 0
  ELSE IF IsPrefix(p, w) THEN (0 - 100) - Len(w)
  ELSE (0 - 1100) - Len(w)

CharRank(c) == IF c = "a" THEN 0 ELSE 1

RECURSIVE LabelCompare(_, _)
\* a.label.localeCompare(b.label): negative, zero or positive
LabelCompare(x, y) ==
  IF x = << >> THEN (IF y = << >> THEN 0 ELSE -1)
  ELSE IF y = << >> THEN 1
  ELSE IF Head(x) = Head(y) THEN LabelCompare(Tail(x), Tail(y))
  ELSE CharRank(Head(x)) - CharRank(Head(y))

(***************************************************************************)
(* Ranking.                                                                *)
(***************************************************************************)
Option(c, s, sc) == [completion |-> c, source |-> s, score |-> sc]

\* score(option): the quality used to pick between duplicates
score(c) ==
  c.boost * 100 + (IF c.apply # Absent THEN 10 ELSE 0) + (IF c.info # Absent THEN 5 ELSE 0)
    + (IF c.type # Absent THEN 1 ELSE 0)

RECURSIVE addOptionsBoostUnmatched(_, _, _, _)
\* faulty variant of addOptions: a candidate that does not match is added
\* with its boost as score when the boost is positive
addOptionsBoostUnmatched(acc, a, cs, pattern) ==
  IF cs = << >> THEN acc
  ELSE LET c == Head(cs)
           acc2 == IF a.result.filter = FALSE
                   THEN Append(acc, Option(c, a.source, 1000000000 - Len(acc)))
                   ELSE IF FuzzyMatch(pattern, c.label)
                        THEN Append(acc, Option(c, a.source, FuzzyScore(pattern, c.label) + c.boost))
                        ELSE IF c.boost > 0
                             THEN Append(acc, Option(c, a.source, c.boost))
                             ELSE acc
       IN addOptionsBoostUnmatched(acc2, a, Tail(cs), pattern)

RECURSIVE addOptions(_, _, _, _)
\* the loop over a.result.options of sortOptions, appending to acc
addOptions(acc, a, cs, pattern) ==
  IF cs = << >> THEN acc
  ELSE LET c == Head(cs)
           acc2 == IF a.result.filter = FALSE
                   THEN Append(acc, Option(c, a.source, 1000000000 - Len(acc)))
                   ELSE IF FuzzyMatch(pattern, c.label)
                        THEN Append(acc, Option(c, a.source, FuzzyScore(pattern, c.label) + c.boost))
                        ELSE acc
       IN addOptions(acc2, a, Tail(cs), pattern)

RECURSIVE collectOptions(_, _, _)
\* the loop over active of sortOptions
collectOptions(acc, active, d) ==
  IF active = << >> THEN acc
  ELSE LET a == Head(active)
       IN collectOptions(IF hasResult(a)
                         THEN addOptions(acc, a, a.result.options, sliceDoc(d, a.from, a.to))
                         ELSE acc,
                         Tail(active), d)

\* the comparator given to options.sort: negative when x sorts before y
cmpOption(x, y) ==
  IF y.score - x.score # 0 THEN y.score - x.score
  ELSE LabelCompare(x.completion.label, y.completion.label)

RECURSIVE insertSorted(_, _)
insertSorted(sorted, o) ==
  IF sorted = << >> THEN <<o>>
  ELSE IF cmpOption(o, Head(sorted)) < 0 THEN <<o>> \o sorted
  ELSE <<Head(sorted)>> \o insertSorted(Tail(sorted), o)

RECURSIVE sortSeq(_, _)
\* Array.prototype.sort (stable) with cmpOption
sortSeq(acc, opts) ==
  IF opts = << >> THEN acc ELSE sortSeq(insertSorted(acc, Head(opts)), Tail(opts))

\* the test of the final loop of sortOptions that cur repeats prev
duplicates(prev, cur) ==
  ~(\/ prev.label # cur.label \/ prev.detail # cur.detail
    \/ (prev.type # Absent /\ cur.type # Absent /\ prev.type # cur.type)
    \/ prev.apply # cur.apply \/ prev.boost # cur.boost)

RECURSIVE dedupe(_, _, _)
\* the final loop of sortOptions; prev is << >> or <<completion>>
dedupe(result, prev, opts) ==
  IF opts = << >> THEN result
  ELSE LET opt == Head(opts)
           c == opt.completion
           r2 == IF prev = << >> \/ ~duplicates(prev[1], c)
                 THEN Append(result, opt)
                 ELSE IF score(c) > score(prev[1])
                      THEN [result EXCEPT ![Len(result)] = opt]
                      ELSE result
       IN dedupe(r2, <<c>>, Tail(opts))

RECURSIVE sectionsOf(_, _)
\* the sections addOption has gathered: the first section of each name, in
\* the order the options were added
sectionsOf(acc, opts) ==
  IF opts = << >> THEN acc
  ELSE LET sec == Head(opts).completion.section
       IN sectionsOf(IF sec # NoSection /\ \A k \in 1 .. Len(acc) : acc[k].name # sec.name
                     THEN Append(acc, sec) ELSE acc,
                     Tail(opts))

\* the option was added by the branch for filtered results
addedFiltered(active, o) ==
  \E i \in 1 .. Len(active) :
    active[i].source = o.source /\ hasResult(active[i]) /\ active[i].result.filter # FALSE

RECURSIVE dynamicSectionScore(_, _, _)
\* dynamicSectionScore after the loops: null, or the best score per name of
\* the matched options of filtered results whose section has rank "dynamic"
dynamicSectionScore(acc, opts, active) ==
  IF opts = << >> THEN acc
  ELSE LET o == Head(opts)
           name == o.completion.section.name
           old == IF name \in DOMAIN acc.of /\ acc.of[name] # 0 THEN acc.of[name] ELSE 0 - 1000000000
       IN dynamicSectionScore(IF addedFiltered(active, o) /\ o.completion.section.dynamic
                              THEN [null |-> FALSE,
                                    of |-> (name :> (IF o.score > old THEN o.score ELSE old)) @@ acc.of]
                              ELSE acc,
                              Tail(opts), active)

\* the order of the section names under <
SectionNames == <<"s", "t">>

nameIndex(n) == CHOOSE k \in 1 .. Len(SectionNames) : SectionNames[k] = n

\* cmp(a, b) of sortOptions for two sections; a score that is missing
\* makes the first term NaN, which counts as 0
cmpSection(a, b, dss) ==
  LET dyn == IF a.dynamic /\ b.dynamic /\ a.name \in DOMAIN dss.of /\ b.name \in DOMAIN dss.of
             THEN dss.of[b.name] - dss.of[a.name] ELSE 0
  IN IF dyn # 0 THEN dyn
     ELSE IF a.rank - b.rank # 0 THEN a.rank - b.rank
     ELSE IF nameIndex(a.name) < nameIndex(b.name) THEN -1 ELSE 1

\* cmp reads dynamicSectionScore![b.name] while dynamicSectionScore is null:
\* two sections of rank "dynamic", none of them from a filtered result
cmpThrows(sections, dss) ==
  /\ dss.null
  /\ \E i, j \in 1 .. Len(sections) : i # j /\ sections[i].dynamic /\ sections[j].dynamic

RECURSIVE insertSection(_, _, _)
insertSection(sorted, sec, dss) ==
  IF sorted = << >> THEN <<sec>>
  ELSE IF cmpSection(sec, Head(sorted), dss) < 0 THEN <<sec>> \o sorted
  ELSE <<Head(sorted)>> \o insertSection(Tail(sorted), sec, dss)

RECURSIVE sortSections(_, _, _)
\* sections.sort(cmp)
sortSections(acc, sections, dss) ==
  IF sections = << >> THEN acc
  ELSE sortSections(insertSection(acc, Head(sections), dss), Tail(sections), dss)

\* sectionOrder[name]: pos -= 1e5 for each section in sorted order
sectionOrder(sorted, name) ==
  (0 - 100000) * (CHOOSE k \in 1 .. Len(sorted) : sorted[k].name = name)

\* the loop that adds sectionOrder to the score of the options with a section
addSectionOrder(opts, sorted) ==
  [k \in 1 .. Len(opts) |->
     IF opts[k].completion.section # NoSection
     THEN [opts[k] EXCEPT !.score = @ + sectionOrder(sorted, opts[k].completion.section.name)]
     ELSE opts[k]]

\* sortOptions(active, state) throws a TypeError
sortOptionsThrows(active, d) ==
  LET options == collectOptions(<< >>, active, d)
  IN cmpThrows(sectionsOf(<< >>, options),
               dynamicSectionScore([null |-> TRUE, of |-> << >>], options, active))

\* options.sort(...) in sortOptions: the options in sorted order, before
\* the duplicates are dropped
sortedOptions(active, d) ==
  LET options == collectOptions(<< >>, active, d)
      sections == sectionsOf(<< >>, options)
      dss == dynamicSectionScore([null |-> TRUE, of |-> << >>], options, active)
      scored == IF sections = << >> THEN options
                ELSE addSectionOrder(options, sortSections(<< >>, sections, dss))
  IN sortSeq(<< >>, scored)

\* sortOptions(active, state), when it does not throw
sortOptions(active, d) == dedupe(<< >>, << >>, sortedOptions(active, d))

(***************************************************************************)
(* The dialog. An absent dialog is the empty sequence, an open one a       *)
(* sequence holding the dialog record.                                     *)
(***************************************************************************)
NoDialog == << >>

CompletionDialog(opts, pos, sel, dis) ==
  [options |-> opts, pos |-> pos, selected |-> sel, disabled |-> dis]

\* CompletionDialog.setDisabled
setDisabled(dlg) == [dlg EXCEPT !.disabled = TRUE]

\* CompletionDialog.setSelected
setSelected(dlg, sel) ==
  IF sel = dlg.selected \/ sel >= Len(dlg.options) THEN dlg
  ELSE [dlg EXCEPT !.selected = sel]

\* faulty variant of CompletionDialog.map: the anchor position is kept
mapDialogStale(dlg, ch) == dlg

\* CompletionDialog.map
mapDialog(dlg, ch) == [dlg EXCEPT !.pos = mapPos(ch, dlg.pos, -1)]

RECURSIVE minFrom(_, _)
\* active.reduce((a, b) => b.hasResult() ? Math.min(a, b.from) : a, 1e8)
minFrom(acc, active) ==
  IF active = << >> THEN acc
  ELSE minFrom(IF hasResult(Head(active)) THEN Min(acc, Head(active).from) ELSE acc, Tail(active))

somePending(active) == \E i \in 1 .. Len(active) : isPending(active[i])

someResult(active) == \E i \in 1 .. Len(active) : hasResult(active[i])

\* faulty variant of keepSelected: the previous selection is not looked up
keepSelectedNever(options, prev, dflt) == dflt

\* the index kept from the previous dialog, in CompletionDialog.build
keepSelected(options, prev, dflt) ==
  IF prev # << >> /\ prev[1].selected # dflt /\ prev[1].selected # -1
  THEN LET selectedValue == prev[1].options[prev[1].selected + 1].completion
           hits == {i \in 1 .. Len(options) : options[i].completion = selectedValue}
       IN IF hits = {} THEN dflt
          ELSE (CHOOSE i \in hits : \A j \in hits : i <= j) - 1
  ELSE dflt

\* faulty variant of build: the test for an empty option list is missing
buildNoEmptyTest(active, d, prev, didSetActive) ==
  IF prev # << >> /\ ~didSetActive /\ somePending(active)
  THEN <<setDisabled(prev[1])>>
  ELSE LET options == sortOptions(active, d)
       IN <<CompletionDialog(options, minFrom(100000000, active),
                             keepSelected(options, prev, IF selectOnOpen THEN 0 ELSE -1), FALSE)>>

\* faulty variant of build: an empty option list always closes the dialog
buildCloseOnEmpty(active, d, prev, didSetActive) ==
  LET options == sortOptions(active, d)
  IN IF options = << >> THEN NoDialog
     ELSE IF prev # << >> /\ ~didSetActive /\ somePending(active) THEN <<setDisabled(prev[1])>>
     ELSE <<CompletionDialog(options, minFrom(100000000, active),
                             keepSelected(options, prev, IF selectOnOpen THEN 0 ELSE -1), FALSE)>>

\* faulty variant of build: an empty list disables the previous dialog also
\* when no source is Pending
buildDisableOnEmpty(active, d, prev, didSetActive) ==
  IF prev # << >> /\ ~didSetActive /\ somePending(active)
  THEN <<setDisabled(prev[1])>>
  ELSE LET options == sortOptions(active, d)
       IN IF options = << >>
          THEN (IF prev # << >> THEN <<setDisabled(prev[1])>> ELSE NoDialog)
          ELSE <<CompletionDialog(options, minFrom(100000000, active),
                                  keepSelected(options, prev, IF selectOnOpen THEN 0 ELSE -1), FALSE)>>

\* CompletionDialog.build(active, state, id, prev, conf, didSetActive)
build(active, d, prev, didSetActive) ==
  IF prev # << >> /\ ~didSetActive /\ somePending(active)
  THEN <<setDisabled(prev[1])>>
  ELSE LET options == sortOptions(active, d)
       IN IF options = << >>
          THEN (IF prev # << >> /\ somePending(active) THEN <<setDisabled(prev[1])>> ELSE NoDialog)
          ELSE <<CompletionDialog(options, minFrom(100000000, active),
                                  keepSelected(options, prev, IF selectOnOpen THEN 0 ELSE -1), FALSE)>>

(***************************************************************************)
(* Aggregate state.                                                        *)
(***************************************************************************)
CompletionState(active, open) == [active |-> active, open |-> open]

\* CompletionState.start()
start == CompletionState(<< >>, NoDialog)

\* the sequence of the results of the sources that have one
RECURSIVE resultsOf(_)
resultsOf(active) ==
  IF active = << >> THEN << >>
  ELSE IF hasResult(Head(active)) THEN <<Head(active).result>> \o resultsOf(Tail(active))
  ELSE resultsOf(Tail(active))

\* faulty variant of sameResults: two lists that hold results never count as
\* the same
sameResultsFresh(a, b) == resultsOf(a) = resultsOf(b) /\ resultsOf(a) = << >>

\* sameResults(a, b)
sameResults(a, b) == resultsOf(a) = resultsOf(b)

\* this.active.find(s => s.source == source) || new ActiveSource(...)
findSource(active, s) ==
  LET hits == {i \in 1 .. Len(active) : active[i].source = s}
  IN IF hits # {} THEN active[CHOOSE i \in hits : \A j \in hits : i <= j]
     ELSE ActiveSource(s, IF \E i \in 1 .. Len(active) : active[i].state # "Inactive"
                          THEN "Pending" ELSE "Inactive", -1)

RECURSIVE applySelected(_, _)
\* the loop over tr.effects that applies setSelectedEffect
applySelected(open, effs) ==
  IF effs = << >> THEN open
  ELSE applySelected(IF Head(effs).type = "setSelected" /\ open # << >>
                     THEN <<setSelected(open[1], Head(effs).value)>> ELSE open,
                     Tail(effs))

\* the new state of every source of the list srcs (conf.override of
\* tr.state), in CompletionState.update
nextActiveOf(srcs, c, tr) == [i \in 1 .. Len(srcs) |-> update(findSource(c.active, srcs[i]), tr)]

nextActive(c, tr) == nextActiveOf(override, c, tr)

\* tr.effects.some(e => e.is(setActiveEffect))
didSet(tr) == \E i \in 1 .. Len(tr.effects) : tr.effects[i].type = "setActive"

\* the dialog mapped through the changes, in CompletionState.update
mappedOpen(c, tr) ==
  IF c.open # << >> /\ docChanged(tr) THEN <<mapDialog(c.open[1], tr.changes)>> ELSE c.open

\* faulty variant of rebuilds: a change of the results and setActiveEffect
\* are not tested
rebuildsOnInput(c, active, tr) ==
  \/ tr.selection
  \/ \E i \in 1 .. Len(active) :
       hasResult(active[i]) /\ touchesRange(tr.changes, active[i].from, active[i].to)

\* faulty variant of rebuilds: neither the selection nor edits inside the
\* span of a result are tested
rebuildsOnResults(c, active, tr) == ~sameResults(active, c.active) \/ didSet(tr)

\* the test of CompletionState.update that makes it rebuild the dialog
rebuilds(c, active, tr) ==
  \/ tr.selection
  \/ \E i \in 1 .. Len(active) :
       hasResult(active[i]) /\ touchesRange(tr.changes, active[i].from, active[i].to)
  \/ ~sameResults(active, c.active)
  \/ didSet(tr)

\* faulty variant of settle: results without a dialog are kept
settleNever(active, open) == active

\* the last step of CompletionState.update on the source states: results
\* without a dialog are dropped once no source is Pending
settle(active, open) ==
  IF open = << >> /\ ~somePending(active) /\ someResult(active)
  THEN [i \in 1 .. Len(active) |->
          IF hasResult(active[i]) THEN ActiveSource(active[i].source, "Inactive", -1) ELSE active[i]]
  ELSE active

\* faulty variant of csUpdateOf: a disabled dialog is not closed when no
\* source is Pending any more
csUpdateKeepDisabled(srcs, c, tr) ==
  LET active == nextActiveOf(srcs, c, tr)
      open1 == mappedOpen(c, tr)
      open2 == IF rebuilds(c, active, tr) THEN build(active, tr.doc, open1, didSet(tr)) ELSE open1
  IN CompletionState(settle(active, open2), applySelected(open2, tr.effects))

\* CompletionState.update(tr) in a state whose configured sources are srcs
csUpdateOf(srcs, c, tr) ==
  LET active == nextActiveOf(srcs, c, tr)
      open1 == mappedOpen(c, tr)
      open2 == IF rebuilds(c, active, tr) THEN build(active, tr.doc, open1, didSet(tr))
               ELSE IF open1 # << >> /\ open1[1].disabled /\ ~somePending(active) THEN NoDialog
               ELSE open1
  IN CompletionState(settle(active, open2), applySelected(open2, tr.effects))

\* CompletionState.update(tr)
csUpdate(c, tr) == csUpdateOf(override, c, tr)

(***************************************************************************)
(* The scheduler (completionPlugin).  Its operations are functions on the  *)
(* record sys of the view state (doc, head, cs) and the plugin fields.     *)
(* A query record is a RunningQuery: active, context (pos, explicit),      *)
(* updates and done; failed tells whether the call of the source threw     *)
(* ("threw") or its future was rejected ("rejected").                      *)
(***************************************************************************)
Undef == [tag |-> "undef", res |-> NoRes]

Null == [tag |-> "null", res |-> NoRes]

Done(r) == [tag |-> "result", res |-> r]

RunningQuery(a, s) ==
  [active |-> a, pos |-> s.head, explicit |-> (a.explicitPos = s.head),
   updates |-> << >>, done |-> Undef, failed |-> "no"]

isFailed(q) == q.failed # "no"

hasQuery(running, src) == \E i \in 1 .. Len(running) : running[i].active.source = src

hasStart(tr) == \E i \in 1 .. Len(tr.effects) : tr.effects[i].type = "start"

\* update.startState.field(completionState) == cState: the update returned this
sameField(tr, old, new) ==
  /\ old = new
  /\ Len(old.active) = Len(override)
  /\ \A i \in 1 .. Len(tr.effects) :
       /\ tr.effects[i].type \notin {"start", "close"}
       /\ tr.effects[i].type = "setActive" => tr.effects[i].active = << >>

\* the test that makes completionPlugin.update abort every running query
doesResetOf(tr, type) ==
  "Reset" \in type \/ ((tr.selection \/ docChanged(tr)) /\ ~SimpleInteraction(type))

doesReset(tr) == doesResetOf(tr, getUpdateType(tr))

\* faulty variant of abortsWith: a query with a full backlog is aborted
\* whatever its age
abortsWhenFull(q, reset, aged) == reset \/ Len(q.updates) + 1 > MaxUpdateCount

\* the abort test of completionPlugin.update for one query; aged is
\* Date.now() - query.time > MinAbortTime
abortsWith(q, reset, aged) == reset \/ (Len(q.updates) + 1 > MaxUpdateCount /\ aged)

aborts(q, tr, aged) == abortsWith(q, doesReset(tr), aged)

RECURSIVE keepRunning(_, _, _)
\* the loop over this.running of completionPlugin.update; the backlog of a
\* failed query is never replayed (its done stays undefined) and is not
\* recorded
keepRunning(qs, tr, aged) ==
  IF qs = << >> THEN << >>
  ELSE IF aborts(Head(qs), tr, aged) THEN keepRunning(Tail(qs), tr, aged)
  ELSE <<IF isFailed(Head(qs)) THEN Head(qs) ELSE [Head(qs) EXCEPT !.updates = Append(@, tr)]>>
         \o keepRunning(Tail(qs), tr, aged)

\* the queries that the update detaches while their future is unsettled
newOrphans(qs, tr, aged) ==
  Cardinality({i \in 1 .. Len(qs) :
                 aborts(qs[i], tr, aged) /\ qs[i].done = Undef /\ ~isFailed(qs[i])})

\* faulty variant of needsQuery: the queries in flight are not looked at
needsQueryAnyPending(active, queries) == somePending(active)

\* the debounce test: some Pending source has no running query
needsQuery(active, running) ==
  \E i \in 1 .. Len(active) : isPending(active[i]) /\ ~hasQuery(running, active[i].source)

\* completionPlugin.update(update) for an update of one transaction;
\* s.cs is the new field value, old the one of update.startState
pluginUpdate(s, tr, old, aged) ==
  IF ~tr.selection /\ ~docChanged(tr) /\ sameField(tr, old, s.cs) THEN s
  ELSE LET running == keepRunning(s.running, tr, aged)
           pendingStart == s.pendingStart \/ hasStart(tr)
       IN [s EXCEPT !.running = running,
                    !.orphans = Min(MaxOrphans, @ + newOrphans(s.running, tr, aged)),
                    !.pendingStart = pendingStart,
                    !.debounceUpdate = needsQuery(s.cs.active, running)]

\* view.dispatch(tr): the state update followed by the plugin update
dispatch(s, tr, aged) ==
  pluginUpdate([s EXCEPT !.doc = tr.doc, !.head = tr.head, !.cs = csUpdate(s.cs, tr)], tr, s.cs, aged)

\* completionPlugin.startQuery(active), up to the call of the source
startQuery(s, a) == [s EXCEPT !.running = Append(@, RunningQuery(a, s))]

RECURSIVE startLoop(_, _)
\* the loop of completionPlugin.startUpdate over cState.active
startLoop(s, active) ==
  IF active = << >> THEN s
  ELSE LET a == Head(active)
       IN startLoop(IF isPending(a) /\ ~hasQuery(s.running, a.source) THEN startQuery(s, a) ELSE s,
                    Tail(active))

RECURSIVE startLoopAll(_, _)
startLoopAll(s, active) ==
  IF active = << >> THEN s
  ELSE startLoopAll(IF isPending(Head(active)) THEN startQuery(s, Head(active)) ELSE s, Tail(active))

\* faulty variant of startUpdate: every Pending source is queried, also one
\* that has a query in flight
startUpdateAll(s) ==
  startLoopAll([s EXCEPT !.debounceUpdate = FALSE, !.pendingStart = FALSE], s.cs.active)

\* completionPlugin.startUpdate()
startUpdate(s) ==
  startLoop([s EXCEPT !.debounceUpdate = FALSE, !.pendingStart = FALSE], s.cs.active)

\* faulty variant of replay: the backlog is not replayed
replayNothing(a, trs) == a

RECURSIVE replay(_, _)
\* for (let tr of query.updates) active = active.update(tr, conf)
replay(a, trs) == IF trs = << >> THEN a ELSE replay(update(a, Head(trs)), Tail(trs))

\* faulty variant of acceptResult: a missing to is always the cursor of the
\* current state
acceptResultAtView(query, viewHead) ==
  ActiveResult(query.active.source, query.active.explicitPos, query.done.res, query.done.res.from,
               IF query.done.res.to # NoTo THEN query.done.res.to ELSE viewHead)

\* faulty variant of acceptResult: a missing to is the start of the result
acceptResultEmptySpan(query, viewHead) ==
  ActiveResult(query.active.source, query.active.explicitPos, query.done.res, query.done.res.from,
               IF query.done.res.to # NoTo THEN query.done.res.to ELSE query.done.res.from)

\* the ActiveResult that accept() builds from a finished query
acceptResult(query, viewHead) ==
  ActiveResult(query.active.source, query.active.explicitPos, query.done.res, query.done.res.from,
               IF query.done.res.to # NoTo THEN query.done.res.to
               ELSE IF query.updates # << >> THEN query.updates[1].startHead ELSE viewHead)

RECURSIVE acceptLoop(_, _, _, _)
\* the loop of completionPlugin.accept(): s.running collects the queries
\* that stay and the restarted ones, updated the states to dispatch
acceptLoop(qs, s, restarts, updated) ==
  IF qs = << >> THEN [sys |-> [s EXCEPT !.running = @ \o restarts], updated |-> updated]
  ELSE LET query == Head(qs)
           src == query.active.source
           replayed == replay(acceptResult(query, s.head), query.updates)
           hits == {i \in 1 .. Len(s.cs.active) : s.cs.active[i].source = src}
           current == s.cs.active[CHOOSE i \in hits : \A j \in hits : i <= j]
           cleared == replay(ActiveSource(src, "Inactive", -1), query.updates)
       IN IF query.done = Undef
          THEN acceptLoop(Tail(qs), [s EXCEPT !.running = Append(@, query)], restarts, updated)
          ELSE IF query.done.tag = "result" /\ hasResult(replayed)
          THEN acceptLoop(Tail(qs), s, restarts, Append(updated, replayed))
          ELSE IF hits # {} /\ current.state = "Pending"
          THEN IF query.done = Null
               THEN acceptLoop(Tail(qs), s, restarts,
                               IF cleared.state # "Pending" THEN Append(updated, cleared) ELSE updated)
               ELSE acceptLoop(Tail(qs), s,
                               Append(restarts, RunningQuery(current, s)), updated)
          ELSE acceptLoop(Tail(qs), s, restarts, updated)

\* the transaction that accept() dispatches: {effects: setActiveEffect.of(updated)}
setActiveTr(s, updated) ==
  Transaction(s.head, s.doc, s.head, NoChange, FALSE, "none", <<setActiveEffect(updated)>>)

\* faulty variant of accept: no query is started again for a stale result
acceptNoRestart(s, aged) ==
  LET r == acceptLoop(s.running, [s EXCEPT !.debounceAccept = FALSE, !.running = << >>], << >>, << >>)
      kept == [r.sys EXCEPT !.running = SelectSeq(s.running, LAMBDA q : q.done = Undef)]
  IN IF r.updated # << >> THEN dispatch(kept, setActiveTr(s, r.updated), aged) ELSE kept

\* completionPlugin.accept()
accept(s, aged) ==
  LET r == acceptLoop(s.running, [s EXCEPT !.debounceAccept = FALSE, !.running = << >>], << >>, << >>)
  IN IF r.updated # << >> THEN dispatch(r.sys, setActiveTr(s, r.updated), aged) ELSE r.sys

\* faulty variant of scheduleAccept: the fold never waits for the sync window
scheduleAcceptAtOnce(s, aged) == accept(s, aged)

\* completionPlugin.scheduleAccept()
scheduleAccept(s, aged) ==
  IF \A i \in 1 .. Len(s.running) : s.running[i].done # Undef THEN accept(s, aged)
  ELSE [s EXCEPT !.debounceAccept = TRUE]

\* faulty variant of resolved: the aborted flag of the context is not read
resolvedIgnoringAbort(s, i, aborted, result, aged) ==
  scheduleAccept(IF i > 0 THEN [s EXCEPT !.running[i].done = result] ELSE s, aged)

\* the callback startQuery gives to then(): i is the place of the query
\* in this.running, 0 when it was detached (aborted)
resolved(s, i, aborted, result, aged) ==
  IF ~aborted
  THEN scheduleAccept(IF i > 0 THEN [s EXCEPT !.running[i].done = result] ELSE s, aged)
  ELSE s

\* the error callback of startQuery
rejected(s, aged) ==
  dispatch(s, Transaction(s.head, s.doc, s.head, NoChange, FALSE, "none", <<closeCompletionEffect>>), aged)

\* the future of the query at place i of this.running is rejected
rejectedAt(s, i, aged) == rejected([s EXCEPT !.running[i].failed = "rejected"], aged)

\* the Pending sources that startUpdate would query, as places of cState.active
toStart(s) ==
  {i \in 1 .. Len(s.cs.active) : isPending(s.cs.active[i]) /\ ~hasQuery(s.running, s.cs.active[i].source)}

\* the first source that startUpdate would query
firstToStart(s) == s.cs.active[CHOOSE i \in toStart(s) : \A j \in toStart(s) : i <= j]

\* startUpdate() when the first source it calls throws: startQuery has
\* pushed the record, the exception leaves startQuery and startUpdate
startUpdateThrows(s) ==
  LET s0 == [s EXCEPT !.debounceUpdate = FALSE, !.pendingStart = FALSE]
  IN [startQuery(s0, firstToStart(s)) EXCEPT !.running[Len(s.running) + 1].failed = "threw"]

(***************************************************************************)
(* Commands.  A command gives back what it returns (ok) and the state it   *)
(* leaves.  elapsed tells whether interactionDelay has passed since the    *)
(* dialog opened (Date.now() - open.timestamp >= interactionDelay).        *)
(***************************************************************************)
\* a transaction without changes that carries the effect e
effectTr(s, e) == Transaction(s.head, s.doc, s.head, NoChange, FALSE, "none", <<e>>)

\* the index that moveCompletionSelection(forward, "option") selects
moveSelected(dlg, forward) ==
  LET length == Len(dlg.options)
      selected == IF dlg.selected > -1 THEN dlg.selected + (IF forward THEN 1 ELSE -1)
                  ELSE IF forward THEN 0 ELSE length - 1
  IN IF selected < 0 THEN length - 1 ELSE IF selected >= length THEN 0 ELSE selected

\* moveCompletionSelection(forward, "option")(view)
moveCompletionSelection(s, forward, elapsed, aged) ==
  IF s.cs.open = NoDialog \/ s.cs.open[1].disabled \/ ~elapsed THEN [ok |-> FALSE, sys |-> s]
  ELSE [ok |-> TRUE,
        sys |-> dispatch(s, effectTr(s, setSelectedEffect(moveSelected(s.cs.open[1], forward))), aged)]

\* insertCompletionText(state, text, from, to) for a cursor selection, with
\* the user event input.complete
insertCompletionText(s, text, from, to) ==
  LET ch == Change(from, IF to = s.head THEN s.head ELSE to, Len(text))
  IN Transaction(s.head, applyChange(s.doc, ch, text), from + Len(text), ch, TRUE, "input.complete", NoEffects)

\* applyCompletion(view, option), for a completion applied by its label
applyCompletion(s, option, aged) ==
  LET hits == {i \in 1 .. Len(s.cs.active) : s.cs.active[i].source = option.source}
      result == s.cs.active[CHOOSE i \in hits : \A j \in hits : i <= j]
  IN IF hits = {} \/ ~hasResult(result) THEN [ok |-> FALSE, sys |-> s]
     ELSE [ok |-> TRUE,
           sys |-> dispatch(s, insertCompletionText(s, option.completion.label, result.from, result.to), aged)]

\* faulty variant of acceptCompletion: the disabled flag is not read
acceptCompletionAnyDialog(s, readOnly, elapsed, aged) ==
  IF readOnly \/ s.cs.open = NoDialog THEN [ok |-> FALSE, sys |-> s]
  ELSE IF s.cs.open[1].selected < 0 \/ ~elapsed THEN [ok |-> FALSE, sys |-> s]
  ELSE applyCompletion(s, s.cs.open[1].options[s.cs.open[1].selected + 1], aged)

\* acceptCompletion(view)
acceptCompletion(s, readOnly, elapsed, aged) ==
  IF readOnly \/ s.cs.open = NoDialog THEN [ok |-> FALSE, sys |-> s]
  ELSE IF s.cs.open[1].selected < 0 \/ s.cs.open[1].disabled \/ ~elapsed THEN [ok |-> FALSE, sys |-> s]
  ELSE applyCompletion(s, s.cs.open[1].options[s.cs.open[1].selected + 1], aged)

\* completionStatus(state): "active", "pending" or "null"
completionStatus(c) ==
  IF \E i \in 1 .. Len(c.active) : c.active[i].state = "Pending" THEN "pending"
  ELSE IF \E i \in 1 .. Len(c.active) : c.active[i].state # "Inactive" THEN "active"
  ELSE "null"

\* currentCompletions(state)
currentCompletions(c) ==
  IF c.open = NoDialog \/ c.open[1].disabled THEN << >>
  ELSE [k \in 1 .. Len(c.open[1].options) |-> c.open[1].options[k].completion]

(***************************************************************************)
(* What the sources answer.  Source 1 answers null, a result from the      *)
(* start of the line with validFor /^\w*$/, or a result from the query     *)
(* position without validFor, and leaves to unset; the other sources       *)
(* answer a result with from = to = the query position and validFor        *)
(* /^\w*$/.  Only source 1 fails.                                          *)
(***************************************************************************)
Result(src, from, to, validFor) ==
  [id |-> src, from |-> from, to |-> to, options |-> optionsOf(src), validFor |-> validFor, filter |-> TRUE,
   update |-> "none"]

Answers(q) ==
  IF q.active.source = 1
  THEN {Null, Done(Result(1, 0, NoTo, "word")), Done(Result(1, q.pos, NoTo, "none"))}
  ELSE {Done(Result(q.active.source, q.pos, q.pos, "word"))}

(***************************************************************************)
(* State.                                                                  *)
(***************************************************************************)
VARIABLES doc, head, cs, running, debounceUpdate, pendingStart, debounceAccept, orphans, contexts, ranking, single,
          composition

vars == <<doc, head, cs, running, debounceUpdate, pendingStart, debounceAccept, orphans, contexts, ranking, single,
          composition>>

sys ==
  [doc |-> doc, head |-> head, cs |-> cs, running |-> running, debounceUpdate |-> debounceUpdate,
   pendingStart |-> pendingStart, debounceAccept |-> debounceAccept, orphans |-> orphans]

Commit(s) ==
  /\ doc' = s.doc
  /\ head' = s.head
  /\ cs' = s.cs
  /\ running' = s.running
  /\ debounceUpdate' = s.debounceUpdate
  /\ pendingStart' = s.pendingStart
  /\ debounceAccept' = s.debounceAccept
  /\ orphans' = s.orphans
  /\ contexts' = contexts
  /\ ranking' = ranking
  /\ single' = single
  /\ composition' = composition

\* no call of sortOptions on its own is under way
NoRanking ==
  [universe |-> "boost", active |-> << >>, doc |-> << >>, ranked |-> << >>, sorted |-> FALSE, threw |-> FALSE]

\* no composition is followed: composing is CompositionState.None, no
\* transaction is logged and no timeout of compositionend is waiting
NoComposition == [composing |-> "None", log |-> << >>, timers |-> << >>, dispatched |-> << >>]

\* no source is followed on its own
NoSingle ==
  [active |-> ActiveSource(1, "Inactive", -1), doc |-> << >>, head |-> 0, typing |-> TRUE, made |-> << >>]

Init ==
  /\ doc = << >>
  /\ head = 0
  /\ cs = start
  /\ running = << >>
  /\ debounceUpdate = FALSE
  /\ pendingStart = FALSE
  /\ debounceAccept = FALSE
  /\ orphans = 0
  /\ composition = NoComposition
  /\ contexts = << >>
  /\ ranking = NoRanking
  /\ single = NoSingle

\* whether a query is older than MinAbortTime matters only to a query whose
\* backlog is full
Ages ==
  IF \E i \in 1 .. Len(running) : Len(running[i].updates) + 1 > MaxUpdateCount
  THEN BOOLEAN ELSE {FALSE}

\* room is left in the backlog of every running query
Room == \A i \in 1 .. Len(running) : Len(running[i].updates) < MaxBacklog

(***************************************************************************)
(* Transactions of the user and the host.                                  *)
(***************************************************************************)
TypeTr(c) ==
  Transaction(head, applyChange(doc, Change(head, head, 1), <<c>>), head + 1,
              Change(head, head, 1), TRUE, "input.type", NoEffects)

BackspaceTr ==
  Transaction(head, applyChange(doc, Change(head - 1, head, 0), << >>), head - 1,
              Change(head - 1, head, 0), TRUE, "delete.backward", NoEffects)

SelectTr(p) == Transaction(head, doc, p, NoChange, TRUE, "none", NoEffects)

InsertTr(p, c) ==
  Transaction(head, applyChange(doc, Change(p, p, 1), <<c>>), mapPos(Change(p, p, 1), head, -1),
              Change(p, p, 1), FALSE, "none", NoEffects)

DeleteTr(p) ==
  Transaction(head, applyChange(doc, Change(p, p + 1, 0), << >>), mapPos(Change(p, p + 1, 0), head, -1),
              Change(p, p + 1, 0), FALSE, "none", NoEffects)

EffectTr(e) == Transaction(head, doc, head, NoChange, FALSE, "none", <<e>>)

NoOpTr == Transaction(head, doc, head, NoChange, FALSE, "none", NoEffects)

Type ==
  /\ Room /\ Len(doc) < MaxDocLen
  /\ \E c \in Chars, aged \in Ages : Commit(dispatch(sys, TypeTr(c), aged))

Backspace ==
  /\ Room /\ head > 0
  /\ \E aged \in Ages : Commit(dispatch(sys, BackspaceTr, aged))

MoveCursor ==
  /\ Room
  /\ \E p \in 0 .. Len(doc), aged \in Ages : Commit(dispatch(sys, SelectTr(p), aged))

InsertText ==
  /\ Room /\ Len(doc) < MaxDocLen
  /\ \E p \in 0 .. Len(doc), aged \in Ages : Commit(dispatch(sys, InsertTr(p, "a"), aged))

DeleteText ==
  /\ Room
  /\ \E p \in 0 .. Len(doc) - 1, aged \in Ages : Commit(dispatch(sys, DeleteTr(p), aged))

\* the startCompletion command
StartCompletion ==
  /\ Room
  /\ \E aged \in Ages : Commit(dispatch(sys, EffectTr(startCompletionEffect(TRUE)), aged))

\* the closeCompletion command
CloseCompletion ==
  /\ Room
  /\ \E i \in 1 .. Len(cs.active) : cs.active[i].state # "Inactive"
  /\ \E aged \in Ages : Commit(dispatch(sys, EffectTr(closeCompletionEffect), aged))

\* the moveCompletionSelection commands
MoveSelection ==
  /\ Room
  /\ \E forward \in BOOLEAN, elapsed \in BOOLEAN, aged \in Ages :
       LET r == moveCompletionSelection(sys, forward, elapsed, aged)
       IN r.ok /\ Commit(r.sys)

\* the acceptCompletion command; the document it leaves stays within the
\* modelled documents (length and letters)
AcceptCompletion ==
  /\ Room
  /\ \E readOnly \in BOOLEAN, elapsed \in BOOLEAN, aged \in Ages :
       LET r == acceptCompletion(sys, readOnly, elapsed, aged)
       IN /\ r.ok /\ Len(r.sys.doc) <= MaxDocLen
          /\ \A k \in 1 .. Len(r.sys.doc) : r.sys.doc[k] \in Chars
          /\ Commit(r.sys)

NoOp ==
  /\ Room
  /\ \E aged \in Ages : Commit(dispatch(sys, NoOpTr, aged))

(***************************************************************************)
(* Timers and futures.                                                     *)
(***************************************************************************)
\* the debounce timer fires
StartUpdateTimer ==
  /\ debounceUpdate
  /\ Commit(startUpdate(sys))

\* the debounce timer fires and the first source started throws
StartUpdateThrows ==
  /\ debounceUpdate
  /\ toStart(sys) # {} /\ firstToStart(sys).source = 1
  /\ Commit(startUpdateThrows(sys))

\* the sync-window timer fires
AcceptTimer ==
  /\ debounceAccept
  /\ \E aged \in Ages : Commit(accept(sys, aged))

\* the future of a running query resolves
Resolve ==
  /\ \E i \in 1 .. Len(running), aged \in Ages :
       /\ running[i].done = Undef /\ ~isFailed(running[i])
       /\ \E r \in Answers(running[i]) : Commit(resolved(sys, i, FALSE, r, aged))

\* the future of a running query is rejected
Reject ==
  /\ Room
  /\ \E i \in 1 .. Len(running), aged \in Ages :
       /\ running[i].done = Undef /\ ~isFailed(running[i]) /\ running[i].active.source = 1
       /\ Commit(rejectedAt(sys, i, aged))

\* the future of an aborted query resolves
ResolveOrphan ==
  /\ orphans > 0
  /\ \E aged \in Ages : Commit(resolved([sys EXCEPT !.orphans = @ - 1], 0, TRUE, Null, aged))

\* the future of an aborted query is rejected
RejectOrphan ==
  /\ Room /\ orphans > 0
  /\ \E aged \in Ages : Commit(rejected([sys EXCEPT !.orphans = @ - 1], aged))

Next ==
  \/ Type \/ Backspace \/ MoveCursor \/ InsertText \/ DeleteText
  \/ StartCompletion \/ CloseCompletion \/ MoveSelection \/ AcceptCompletion \/ NoOp
  \/ StartUpdateTimer \/ StartUpdateThrows \/ AcceptTimer
  \/ Resolve \/ Reject \/ ResolveOrphan \/ RejectOrphan

Spec == Init /\ [][Next]_vars

TypeOK ==
  /\ head \in 0 .. Len(doc)
  /\ Len(doc) <= MaxDocLen
  /\ Len(cs.open) <= 1

(***************************************************************************)
(* The query context (CompletionContext) and its abort listeners, on their *)
(* own: contexts holds the contexts of the queries the scheduler started.  *)
(* A context has abortListeners (null or a list; a listener is named by    *)
(* its place in registered) and the flags of its query.  registered is the *)
(* record of every call of addEventListener on the context: whether the    *)
(* context had been aborted by then (late) and how often the listener has  *)
(* been invoked (calls).                                                   *)
(***************************************************************************)
\* new CompletionContext(...), in a RunningQuery pushed to this.running
NewContext ==
  [abortListeners |-> [null |-> FALSE, list |-> << >>], registered |-> << >>,
   wasAborted |-> FALSE, done |-> FALSE, inRunning |-> TRUE]

\* get aborted()
ctxAborted(ctx) == ctx.abortListeners.null

\* addEventListener("abort", listener)
addEventListener(ctx) ==
  LET noted == [ctx EXCEPT !.registered = Append(@, [late |-> ctx.wasAborted, calls |-> 0])]
  IN IF ~ctx.abortListeners.null
     THEN [noted EXCEPT !.abortListeners.list = Append(@, Len(noted.registered))]
     ELSE noted

RECURSIVE callHandlers(_, _)
\* for (let handler of query.context.abortListeners) handler()
callHandlers(registered, list) ==
  IF list = << >> THEN registered
  ELSE callHandlers([registered EXCEPT ![Head(list)].calls = @ + 1], Tail(list))

\* faulty variant of abortQuery: the list of listeners is emptied, not set
\* to null
abortQueryEmptyList(ctx) ==
  [ctx EXCEPT !.registered = callHandlers(@, ctx.abortListeners.list),
              !.abortListeners = [null |-> FALSE, list |-> << >>],
              !.wasAborted = TRUE, !.inRunning = FALSE]

\* the abort of one query in completionPlugin.update: the handlers are
\* called, abortListeners is set to null, the query leaves this.running
abortQuery(ctx) ==
  [ctx EXCEPT !.registered = callHandlers(@, ctx.abortListeners.list),
              !.abortListeners = [null |-> TRUE, list |-> << >>],
              !.wasAborted = TRUE, !.inRunning = FALSE]

\* the callback of startQuery for a settled future
settleQuery(ctx) == IF ~ctxAborted(ctx) THEN [ctx EXCEPT !.done = TRUE] ELSE ctx

\* accept() takes a finished query out of this.running
acceptQuery(ctx) == [ctx EXCEPT !.inRunning = FALSE]

\* startQuery creates a context
CtxStart ==
  /\ Len(contexts) < MaxContexts
  /\ contexts' = Append(contexts, NewContext)
  /\ UNCHANGED <<composition, doc, head, cs, running, debounceUpdate, pendingStart, debounceAccept, orphans, ranking, single>>

\* the source registers an abort listener, at any time
CtxAddListener ==
  /\ \E i \in 1 .. Len(contexts) :
       /\ Len(contexts[i].registered) < MaxListeners
       /\ contexts' = [contexts EXCEPT ![i] = addEventListener(@)]
  /\ UNCHANGED <<composition, doc, head, cs, running, debounceUpdate, pendingStart, debounceAccept, orphans, ranking, single>>

\* an update aborts a query of this.running
CtxAbort ==
  /\ \E i \in 1 .. Len(contexts) :
       /\ contexts[i].inRunning
       /\ contexts' = [contexts EXCEPT ![i] = abortQuery(@)]
  /\ UNCHANGED <<composition, doc, head, cs, running, debounceUpdate, pendingStart, debounceAccept, orphans, ranking, single>>

\* the future of a query settles
CtxSettle ==
  /\ \E i \in 1 .. Len(contexts) :
       /\ ~contexts[i].done
       /\ contexts' = [contexts EXCEPT ![i] = settleQuery(@)]
  /\ UNCHANGED <<composition, doc, head, cs, running, debounceUpdate, pendingStart, debounceAccept, orphans, ranking, single>>

\* accept() folds a finished query
CtxAccept ==
  /\ \E i \in 1 .. Len(contexts) :
       /\ contexts[i].inRunning /\ contexts[i].done
       /\ contexts' = [contexts EXCEPT ![i] = acceptQuery(@)]
  /\ UNCHANGED <<composition, doc, head, cs, running, debounceUpdate, pendingStart, debounceAccept, orphans, ranking, single>>

CtxNext == CtxStart \/ CtxAddListener \/ CtxAbort \/ CtxSettle \/ CtxAccept

CtxSpec == Init /\ [][CtxNext]_vars

(***************************************************************************)
(* sortOptions on its own: ranking holds a list of sources with results    *)
(* whose candidates are drawn from one of three universes (labels and      *)
(* boosts; sections; the properties that make up the quality), the         *)
(* document whose whole text is the query, and the ranked list once        *)
(* sortOptions has run (threw when it ended in an exception).              *)
(***************************************************************************)
RankLabels == {<<"a">>, <<"b">>, <<"a", "b">>}
RankDocs == {<< >>, <<"a">>, <<"a", "b">>}
Boosts == {0 - 99, 0, 99}

\* sections: s without rank, t with rank 1, and both names with rank "dynamic"
RankSections ==
  {[name |-> "s", rank |-> NoRank, dynamic |-> FALSE], [name |-> "t", rank |-> 1, dynamic |-> FALSE],
   [name |-> "s", rank |-> NoRank, dynamic |-> TRUE], [name |-> "t", rank |-> NoRank, dynamic |-> TRUE]}

Universes == {"boost", "section", "quality"}

\* the candidates a source can offer in a universe
RankCandidates(universe) ==
  IF universe = "boost" THEN {CompletionIn(l, b, NoSection) : l \in RankLabels, b \in Boosts}
  ELSE IF universe = "section"
  THEN {CompletionIn(<<"a">>, b, sec) : b \in {0 - 99, 99}, sec \in {NoSection} \cup RankSections}
  ELSE {[CompletionIn(<<"a">>, 0, NoSection) EXCEPT !.info = i, !.type = t, !.apply = ap] :
          i \in {Absent, "i"}, t \in {Absent, "k", "v"}, ap \in {Absent, "x"}}

\* the documents of a universe
RankDocsOf(universe) == IF universe = "quality" THEN {<<"a">>} ELSE RankDocs

RankInit ==
  /\ doc = << >>
  /\ head = 0
  /\ cs = start
  /\ running = << >>
  /\ debounceUpdate = FALSE
  /\ pendingStart = FALSE
  /\ debounceAccept = FALSE
  /\ orphans = 0
  /\ composition = NoComposition
  /\ contexts = << >>
  /\ single = NoSingle
  /\ \E u \in Universes : \E d \in RankDocsOf(u) : ranking = [NoRanking EXCEPT !.universe = u, !.doc = d]

\* a further source has a result over the whole document, filtered or not
RankAddSource ==
  /\ ~ranking.sorted /\ Len(ranking.active) < NumSources
  /\ \E f \in BOOLEAN :
       ranking' = [ranking EXCEPT !.active =
                     Append(@, ActiveResult(Len(@) + 1, -1, [NoRes EXCEPT !.id = 1, !.filter = f],
                                            0, Len(ranking.doc)))]
  /\ UNCHANGED <<composition, doc, head, cs, running, debounceUpdate, pendingStart, debounceAccept, orphans, contexts, single>>

\* the result of the last source has a further candidate
RankAddOption ==
  /\ ~ranking.sorted /\ ranking.active # << >>
  /\ LET n == Len(ranking.active)
     IN /\ Len(ranking.active[n].result.options) < MaxOptions
        /\ \E c \in RankCandidates(ranking.universe) :
             ranking' = [ranking EXCEPT !.active[n].result.options = Append(@, c)]
  /\ UNCHANGED <<composition, doc, head, cs, running, debounceUpdate, pendingStart, debounceAccept, orphans, contexts, single>>

\* sortOptions(active, state)
RankSort ==
  /\ ~ranking.sorted /\ ranking.active # << >>
  /\ ranking' = IF sortOptionsThrows(ranking.active, ranking.doc)
                 THEN [ranking EXCEPT !.threw = TRUE, !.sorted = TRUE]
                 ELSE [ranking EXCEPT !.ranked = sortOptions(ranking.active, ranking.doc), !.sorted = TRUE]
  /\ UNCHANGED <<composition, doc, head, cs, running, debounceUpdate, pendingStart, debounceAccept, orphans, contexts, single>>

RankNext == RankAddSource \/ RankAddOption \/ RankSort

RankSpec == RankInit /\ [][RankNext]_vars

(***************************************************************************)
(* One source on its own: single holds its ActiveSource, the document and  *)
(* the cursor, the configured activateOnTyping, and the completion         *)
(* contexts the last step has created (by startQuery or for the update     *)
(* function of a result).  The source answers a query with a result from   *)
(* the start of the line or from the cursor, with or without validFor and  *)
(* with or without an update function.                                     *)
(***************************************************************************)
LineChars == {"a", "."}

SrcResults(pos) ==
  {[Result(1, from, NoTo, validFor) EXCEPT !.update = upd] :
     from \in {0, pos}, validFor \in {"none", "word"}, upd \in {"none", "keep", "null", "explicit"}}

SrcInit ==
  /\ doc = << >>
  /\ head = 0
  /\ cs = start
  /\ running = << >>
  /\ debounceUpdate = FALSE
  /\ pendingStart = FALSE
  /\ debounceAccept = FALSE
  /\ orphans = 0
  /\ composition = NoComposition
  /\ contexts = << >>
  /\ ranking = NoRanking
  /\ \E t \in BOOLEAN : single = [NoSingle EXCEPT !.typing = t]

\* the source is updated for a transaction
SrcStep(tr) ==
  /\ single' = [single EXCEPT !.active = updateWith(single.active, tr, getUpdateTypeIn(tr, single.typing)),
                              !.doc = tr.doc, !.head = tr.head,
                              !.made = madeWith(single.active, tr, getUpdateTypeIn(tr, single.typing))]
  /\ UNCHANGED <<composition, doc, head, cs, running, debounceUpdate, pendingStart, debounceAccept, orphans, contexts, ranking>>

SrcType ==
  /\ Len(single.doc) < MaxLine
  /\ \E c \in LineChars :
       SrcStep(Transaction(single.head,
                           applyChange(single.doc, Change(single.head, single.head, 1), <<c>>),
                           single.head + 1, Change(single.head, single.head, 1), TRUE, "input.type", NoEffects))

SrcBackspace ==
  /\ single.head > 0
  /\ SrcStep(Transaction(single.head,
                         applyChange(single.doc, Change(single.head - 1, single.head, 0), << >>),
                         single.head - 1, Change(single.head - 1, single.head, 0), TRUE, "delete.backward",
                         NoEffects))

SrcMoveCursor ==
  \E p \in 0 .. Len(single.doc) :
    /\ p # single.head
    /\ SrcStep(Transaction(single.head, single.doc, p, NoChange, TRUE, "none", NoEffects))

SrcStartCompletion ==
  \E explicit \in BOOLEAN :
    SrcStep(Transaction(single.head, single.doc, single.head, NoChange, FALSE, "none",
                        <<startCompletionEffect(explicit)>>))

SrcCloseCompletion ==
  SrcStep(Transaction(single.head, single.doc, single.head, NoChange, FALSE, "none", <<closeCompletionEffect>>))

\* startQuery(active) creates the context of a query for the Pending source
SrcStartQuery ==
  /\ isPending(single.active)
  /\ single' = [single EXCEPT !.made = <<CompletionContext(single.head, single.active.explicitPos = single.head)>>]
  /\ UNCHANGED <<composition, doc, head, cs, running, debounceUpdate, pendingStart, debounceAccept, orphans, contexts, ranking>>

\* accept() installs the answer of a query that was started in this state
SrcAccept ==
  /\ isPending(single.active)
  /\ \E r \in SrcResults(single.head) :
       SrcStep(Transaction(single.head, single.doc, single.head, NoChange, FALSE, "none",
                           <<setActiveEffect(<<ActiveResult(1, single.active.explicitPos, r, r.from,
                                                            single.head)>>)>>))

SrcNext ==
  \/ SrcType \/ SrcBackspace \/ SrcMoveCursor \/ SrcStartCompletion \/ SrcCloseCompletion
  \/ SrcStartQuery \/ SrcAccept

SrcSpec == SrcInit /\ [][SrcNext]_vars

(***************************************************************************)
(* The composition tracking of the plugin, on its own: composition holds   *)
(* this.composing, the transactions the plugin has been updated with since *)
(* the last compositionstart (log), the effects whose dispatch a           *)
(* compositionend has scheduled with setTimeout (timers), and the effects  *)
(* dispatched so far (dispatched).                                         *)
(***************************************************************************)
\* the transactions of an update during a composition: typing (which sets
\* the selection), a selection change, a backspace, an edit without user
\* event
CompTrs ==
  {Transaction(0, <<"a">>, 1, Change(0, 0, 1), TRUE, "input.type", NoEffects),
   Transaction(1, <<"a">>, 0, NoChange, TRUE, "none", NoEffects),
   Transaction(1, << >>, 0, Change(0, 1, 0), TRUE, "delete.backward", NoEffects),
   Transaction(0, <<"a">>, 0, Change(0, 0, 1), FALSE, "none", NoEffects)}

\* the loop over update.transactions at the end of completionPlugin.update,
\* for one transaction
composingAfter(composing, tr) ==
  IF composing = "None" THEN composing
  ELSE IF tr.event = "input.type" THEN "Changed"
  ELSE IF composing = "Changed" /\ tr.selection THEN "ChangedAndMoved"
  ELSE composing

\* faulty variant of compositionend: the effect is scheduled whenever the
\* composition has changed the document
compositionendChanged(c) ==
  [c EXCEPT !.composing = "None",
            !.timers = IF c.composing \in {"Changed", "ChangedAndMoved"}
                       THEN Append(@, startCompletionEffect(FALSE)) ELSE @]

\* the compositionend handler
compositionend(c) ==
  [c EXCEPT !.composing = "None",
            !.timers = IF c.composing = "ChangedAndMoved"
                       THEN Append(@, startCompletionEffect(FALSE)) ELSE @]

\* the compositionstart handler
compositionstart(c) == [c EXCEPT !.composing = "Started", !.log = << >>]

CompStep(c) ==
  /\ composition' = c
  /\ UNCHANGED <<doc, head, cs, running, debounceUpdate, pendingStart, debounceAccept, orphans, contexts,
                 ranking, single>>

CompStart == CompStep(compositionstart(composition))

CompUpdate ==
  /\ composition.composing # "None" /\ Len(composition.log) < MaxComposition
  /\ \E tr \in CompTrs :
       CompStep([composition EXCEPT !.composing = composingAfter(@, tr), !.log = Append(@, tr)])

\* an update outside of a composition
CompIdleUpdate ==
  /\ composition.composing = "None"
  /\ \E tr \in CompTrs : CompStep([composition EXCEPT !.composing = composingAfter(@, tr)])

CompEnd ==
  /\ Len(composition.timers) < MaxTimers
  /\ CompStep(compositionend(composition))

\* the timeout of compositionend fires: the effect is dispatched
CompTimeout ==
  /\ composition.timers # << >> /\ Len(composition.dispatched) < MaxTimers
  /\ CompStep([composition EXCEPT !.timers = Tail(@), !.dispatched = Append(@, Head(composition.timers)),
                                  !.composing = composingAfter(@, EffectTr(Head(composition.timers)))])

CompNext == CompStart \/ CompUpdate \/ CompIdleUpdate \/ CompEnd \/ CompTimeout

CompSpec == Init /\ [][CompNext]_vars

(***************************************************************************)
(* The scheduler with fair timers and futures.  An armed timer fires       *)
(* (setTimeout in update and scheduleAccept) and the future of a started   *)
(* query settles (the then() of startQuery).  The sync-window timer is     *)
(* armed exactly when debounceAccept holds and a future can settle exactly *)
(* when a query is unsettled; weak fairness of these two steps is written  *)
(* with these enabling conditions.                                         *)
(***************************************************************************)
\* the steps of the user: typing, moving the cursor and the startCompletion
\* command
UserInput == Type \/ MoveCursor \/ StartCompletion

LiveNext ==
  \/ UserInput
  \/ StartUpdateTimer \/ AcceptTimer \/ Resolve \/ ResolveOrphan

\* some query in this.running has an unsettled future
unsettled == \E i \in 1 .. Len(running) : running[i].done = Undef /\ ~isFailed(running[i])

LiveSpec ==
  /\ Init /\ [][LiveNext]_vars
  /\ WF_vars(StartUpdateTimer)
  /\ WF_vars(ResolveOrphan)
  /\ ([]<>(~debounceAccept) \/ []<><<AcceptTimer>>_vars)
  /\ ([]<>(~unsettled) \/ []<><<Resolve>>_vars)

(***************************************************************************)
(* Properties.                                                             *)
(***************************************************************************)
\* the state of source src in the aggregate state c; a source that c does
\* not list yet counts as Inactive
stateOf(c, src) ==
  LET hits == {i \in 1 .. Len(c.active) : c.active[i].source = src}
  IN IF hits = {} THEN ActiveSource(src, "Inactive", -1)
     ELSE c.active[CHOOSE i \in hits : \A j \in hits : i <= j]

\* the places in this.running of the queries whose future is unsettled
liveQueries == {i \in 1 .. Len(running) : running[i].done = Undef /\ ~isFailed(running[i])}

\* the results a query may be answered with
resultsFor(q) == {a.res : a \in Answers(q) \ {Null}}

\* C1: in every reachable aggregate state the open dialog is absent or holds
\* at least one option, whether it is disabled or not.
C1_DialogNeverEmpty == cs.open = NoDialog \/ Len(cs.open[1].options) > 0

\* a disabled dialog that holds options
C1_Witness == cs.open # NoDialog /\ cs.open[1].disabled /\ Len(cs.open[1].options) > 0

\* R installed at the start of query q (at R.from .. R.to, or the query
\* position when R.to is absent) and taken through the backlog of q one
\* transaction at a time
installed(q, R) ==
  replay(ActiveResult(q.active.source, q.active.explicitPos, R, R.from,
                      IF R.to = NoTo THEN q.pos ELSE R.to), q.updates)

\* the state after the scheduler folds the answer R of the query at place i
folded(i, R) == accept([sys EXCEPT !.running[i].done = Done(R)], FALSE)

\* C2 as stated: for every query in flight and every result R it may be
\* answered with, the committed state of the source after the fold equals R
\* installed at the start of the query and taken through the backlog.
C2_FoldEqualsInstall ==
  \A i \in liveQueries : \A R \in resultsFor(running[i]) :
    stateOf(folded(i, R).cs, running[i].active.source) = installed(running[i], R)

\* C2 amended: when R survives the replay of the backlog, the committed
\* state of the source after the fold is the replayed result, or Inactive
\* when no dialog opens for it; when R does not survive, the committed state
\* of the source is left as it was and, if that is Pending, a new query for
\* the source is in flight.
C2_ReplayEquivalence ==
  \A i \in liveQueries : \A R \in resultsFor(running[i]) :
    LET src == running[i].active.source
        inst == installed(running[i], R)
        after == folded(i, R)
        now == stateOf(after.cs, src)
    IN IF hasResult(inst)
       THEN now = inst \/ (after.cs.open = NoDialog /\ now = ActiveSource(src, "Inactive", -1))
       ELSE now = stateOf(cs, src) /\ (isPending(now) <=> hasQuery(after.running, src))

\* a query with a backlog whose answer, given without to, survives the
\* replay with its span moved and is committed
C2_Witness ==
  \E i \in liveQueries : \E R \in resultsFor(running[i]) :
    /\ running[i].updates # << >> /\ R.to = NoTo
    /\ hasResult(installed(running[i], R))
    /\ installed(running[i], R).to # running[i].pos
    /\ stateOf(folded(i, R).cs, running[i].active.source) = installed(running[i], R)

\* the answers that the future of an aborted query may still deliver
lateAnswers ==
  UNION {Answers([active |-> ActiveSource(src, "Pending", -1), pos |-> p]) :
           src \in Sources, p \in 0 .. Len(doc)}

C4_OneQueryPerSource ==
  \A i, j \in 1 .. Len(running) : running[i].active.source = running[j].active.source => i = j

\* every source has a query in flight, one of them finished and waiting for
\* the sync window, one of them with a backlog
C4_Witness ==
  /\ \A src \in Sources : hasQuery(running, src)
  /\ \E i \in 1 .. Len(running) : running[i].done # Undef
  /\ \E i \in 1 .. Len(running) : Len(running[i].updates) > 0

\* every source is Inactive and no dialog is open
allClosed(c) == c.open = NoDialog /\ \A i \in 1 .. Len(c.active) : c.active[i].state = "Inactive"

\* C5 as stated: when the future of a query is rejected, and when the call
\* of a source throws, the resulting aggregate state has every source
\* Inactive and no dialog.
C5_FailureClosesSession ==
  /\ \A i \in liveQueries : allClosed(rejectedAt(sys, i, FALSE).cs)
  /\ (debounceUpdate /\ toStart(sys) # {}) => allClosed(startUpdateThrows(sys).cs)

\* the part of C5 that the code keeps: a rejected future closes the session
C5_RejectionCloses == \A i \in liveQueries : allClosed(rejectedAt(sys, i, FALSE).cs)

\* C6 as stated, for a run without further input: whenever the source of a
\* query whose future was rejected is Pending again by typing, the start of
\* a new query for it is scheduled: the debounce timer is armed and its
\* firing starts a query for the source.
C6_RetryAfterFailure ==
  \A i \in 1 .. Len(running) :
    LET src == running[i].active.source
        now == stateOf(cs, src)
    IN (running[i].failed = "rejected" /\ isPending(now) /\ now.explicitPos = -1)
         => /\ debounceUpdate
            /\ \E k \in 1 .. Len(startUpdate(sys).running) :
                 /\ startUpdate(sys).running[k].active.source = src
                 /\ ~isFailed(startUpdate(sys).running[k])

\* two aggregate states with the same per-source states and the same dialog
sameAggregate(c, d) == c.open = d.open /\ \A src \in Sources : stateOf(c, src) = stateOf(d, src)

\* C7: a transaction without document change, selection, user event and
\* effect leaves the per-source states and the dialog as they are.
C7_NoOpChangesNothing == sameAggregate(csUpdate(cs, NoOpTr), cs)

\* a no-op transaction on a state with an open dialog whose selection was
\* moved while a source is Pending
C7_Witness ==
  /\ cs.open # NoDialog /\ cs.open[1].selected > 0 /\ somePending(cs.active)
  /\ sameAggregate(csUpdate(cs, NoOpTr), cs)

\* the places of the finished queries of a list of queries
finishedIn(qs) == {j \in 1 .. Len(qs) : qs[j].done # Undef}

\* the sources that the options of the dialog of c come from
dialogSources(c) ==
  IF c.open = NoDialog THEN {}
  ELSE {c.open[1].options[k].source : k \in 1 .. Len(c.open[1].options)}

\* C8: when a query finishes and every other query in flight is finished,
\* all of them are folded at once; otherwise the outcome is recorded and the
\* sync-window timer is armed.  When the timer fires the finished queries
\* are folded and the unfinished ones stay in flight.  A finished query
\* waits in this.running only while the timer is armed.
C8_SyncWindow ==
  /\ \A i \in liveQueries : \A r \in Answers(running[i]) :
       LET after == resolved(sys, i, FALSE, r, FALSE)
       IN IF \A j \in 1 .. Len(running) : j # i => running[j].done # Undef
          THEN finishedIn(after.running) = {} /\ ~after.debounceAccept
          ELSE after = [sys EXCEPT !.running[i].done = r, !.debounceAccept = TRUE]
  /\ debounceAccept =>
       LET after == accept(sys, FALSE)
       IN /\ finishedIn(after.running) = {} /\ ~after.debounceAccept
          /\ \A j \in 1 .. Len(running) :
               running[j].done = Undef =>
                 \E k \in 1 .. Len(after.running) :
                   /\ after.running[k].active = running[j].active
                   /\ after.running[k].pos = running[j].pos
                   /\ after.running[k].failed = running[j].failed
  /\ finishedIn(running) # {} => debounceAccept

\* the fast source 2 has answered and the slow source 1 has not: when the
\* timer fires the dialog holds the options of source 2 only and the query
\* of source 1 stays in flight; when source 1 answers, its options are in
\* the dialog too
C8_Witness ==
  /\ debounceAccept
  /\ \E j \in finishedIn(running) : running[j].active.source = 2
  /\ LET after == accept(sys, FALSE)
     IN /\ dialogSources(after.cs) = {2}
        /\ \E k \in 1 .. Len(after.running) :
             /\ after.running[k].active.source = 1 /\ after.running[k].done = Undef
             /\ ~isFailed(after.running[k])
             /\ \E r \in Answers(after.running[k]) :
                  dialogSources(resolved(after, k, FALSE, r, FALSE).cs) = {1, 2}

\* source a is in Result, the cursor is in its span, a character can be typed
\* and validFor accepts the text of the span with the character in it
typingKeeps(a, c) ==
  /\ hasResult(a) /\ a.from <= head /\ head <= a.to /\ Len(doc) < MaxDocLen
  /\ checkValid(a.result.validFor, TypeTr(c).doc, a.from, a.to + 1)

\* source a stays in Result with the same result, from unchanged and to one
\* further in the aggregate state c
keptExtended(c, a) ==
  LET now == stateOf(c, a.source)
  IN hasResult(now) /\ now.result = a.result /\ now.from = a.from /\ now.to = a.to + 1

\* C9 as stated: typing in the span of a Result source whose validFor
\* accepts the new text leaves the source in Result in the committed state,
\* with the same result, from unchanged and to extended, and starts no query
\* for it.
C9_TypingKeepsResult ==
  \A i \in 1 .. Len(cs.active) : \A c \in Chars :
    typingKeeps(cs.active[i], c) =>
      LET after == dispatch(sys, TypeTr(c), FALSE)
      IN keptExtended(after.cs, cs.active[i]) /\ ~hasQuery(startUpdate(after).running, cs.active[i].source)

\* C9 amended: the source's own transition keeps the result with from
\* unchanged and to extended; the committed state holds that Result unless
\* no option of any source matches any more, in which case the dialog is
\* absent and the source is Inactive; no query is started for the source.
C9_TypingKeepsResultOrCloses ==
  \A i \in 1 .. Len(cs.active) : \A c \in Chars :
    typingKeeps(cs.active[i], c) =>
      LET a == cs.active[i]
          after == dispatch(sys, TypeTr(c), FALSE)
          own == update(a, TypeTr(c))
      IN /\ hasResult(own) /\ own.result = a.result /\ own.from = a.from /\ own.to = a.to + 1
         /\ \/ stateOf(after.cs, a.source) = own
            \/ after.cs.open = NoDialog /\ stateOf(after.cs, a.source) = ActiveSource(a.source, "Inactive", -1)
         /\ ~hasQuery(startUpdate(after).running, a.source)

\* a Result with from = to at the cursor that typing extends by one
C9_Witness ==
  \E i \in 1 .. Len(cs.active) : \E c \in Chars :
    /\ typingKeeps(cs.active[i], c)
    /\ cs.active[i].from = head /\ cs.active[i].to = head
    /\ keptExtended(dispatch(sys, TypeTr(c), FALSE).cs, cs.active[i])

\* C10 as stated: a transaction that only sets the selection leaves a Result
\* source as it is when the new cursor is within from..to and makes it
\* Inactive when the new cursor is outside.
C10_SelectionInsideKeeps ==
  \A i \in 1 .. Len(cs.active) : \A p \in 0 .. Len(doc) :
    hasResult(cs.active[i]) =>
      LET a == cs.active[i]
          now == stateOf(csUpdate(cs, SelectTr(p)), a.source)
      IN IF a.from <= p /\ p <= a.to THEN now = a ELSE now.state = "Inactive"

\* C10 amended: a transaction that only sets the selection makes a Result
\* source Inactive wherever the new cursor is, within from..to or outside.
C10_SelectionResets ==
  \A i \in 1 .. Len(cs.active) : \A p \in 0 .. Len(doc) :
    hasResult(cs.active[i]) =>
      stateOf(csUpdate(cs, SelectTr(p)), cs.active[i].source) = ActiveSource(cs.active[i].source, "Inactive", -1)

\* a Result source whose span holds a position other than the cursor, and
\* the selection set to that position
C10_Witness ==
  \E i \in 1 .. Len(cs.active) : \E p \in 0 .. Len(doc) :
    /\ hasResult(cs.active[i]) /\ cs.active[i].from <= p /\ p <= cs.active[i].to /\ p # head
    /\ stateOf(csUpdate(cs, SelectTr(p)), cs.active[i].source).state = "Inactive"

\* source a is in Result and the character at position a.from can be deleted
\* by a backspace (the cursor is right after it)
backspaceCovers(a) == hasResult(a) /\ head = a.from + 1

\* source a is in Result and the character at position a.from exists
deleteCovers(a) == hasResult(a) /\ a.from < Len(doc)

plainEdits ==
  {InsertTr(p, "a") : p \in {q \in 0 .. Len(doc) : Len(doc) < MaxDocLen}}
    \cup {DeleteTr(p) : p \in 0 .. Len(doc) - 1}

carriers ==
  {TypeTr(c) : c \in {x \in Chars : Len(doc) < MaxDocLen}}
    \cup {BackspaceTr : x \in {y \in {0} : head > 0}}
    \cup {SelectTr(p) : p \in 0 .. Len(doc)}
    \cup plainEdits \cup {NoOpTr}

withEffects(tr, effs) == [tr EXCEPT !.effects = effs]

\* every configured source is in state st with explicit position ep in c
allSources(c, st, ep) ==
  /\ Len(c.active) = Len(override)
  /\ \A i \in 1 .. Len(c.active) : c.active[i] = ActiveSource(override[i], st, ep)

\* C13: a transaction with a start-completion effect leaves every configured
\* source Pending, with the cursor position recorded when the request is
\* explicit and none otherwise; one with a close-completion effect leaves
\* every configured source Inactive; with both, the last effect decides.
\* This holds for every prior state and every edit the transaction carries.
\* (The aggregate state of a state with an unsettled aborted query is also
\* that of the state in which the query has settled, so those are the states
\* looked at.)
C13_StartAndCloseEffects ==
  orphans = 0 =>
    \A tr \in carriers : \A e \in BOOLEAN :
      LET ep == IF e THEN tr.head ELSE -1
      IN /\ allSources(csUpdate(cs, withEffects(tr, <<startCompletionEffect(e)>>)), "Pending", ep)
         /\ allSources(csUpdate(cs, withEffects(tr, <<closeCompletionEffect>>)), "Inactive", -1)
         /\ allSources(csUpdate(cs, withEffects(tr, <<startCompletionEffect(e), closeCompletionEffect>>)),
                       "Inactive", -1)
         /\ allSources(csUpdate(cs, withEffects(tr, <<closeCompletionEffect, startCompletionEffect(e)>>)),
                       "Pending", ep)

\* a source in Result and one Pending, and a backspace that carries an
\* explicit start-completion effect
C13_Witness ==
  /\ orphans = 0 /\ someResult(cs.active) /\ somePending(cs.active) /\ head > 0
  /\ allSources(csUpdate(cs, withEffects(BackspaceTr, <<startCompletionEffect(TRUE)>>)), "Pending", head - 1)

\* the system states in which accept() runs: when the sync-window timer
\* fires, and when the last unfinished query is answered
acceptStates ==
  (IF debounceAccept THEN {sys} ELSE {})
    \cup UNION {{[sys EXCEPT !.running[i].done = r] : r \in Answers(running[i])} :
                  i \in {j \in liveQueries : \A k \in 1 .. Len(running) : k # j => running[k].done # Undef}}

\* the source states that accept() run in state s hands to setActiveEffect
updatedBy(s) ==
  acceptLoop(s.running, [s EXCEPT !.debounceAccept = FALSE, !.running = << >>], << >>, << >>).updated

\* the transactions that state c of the completion field may see: those of
\* the user and the commands, and the one that accept() dispatches
seenBy ==
  {<<cs, tr>> : tr \in carriers \cup {EffectTr(startCompletionEffect(TRUE)), EffectTr(closeCompletionEffect)}}
    \cup {<<s.cs, setActiveTr(s, updatedBy(s))>> : s \in {t \in acceptStates : updatedBy(t) # << >>}}

\* the dialog of d is the dialog of c (options, selected index), disabled
keptDisabled(c, d) ==
  /\ d.open # NoDialog /\ d.open[1].disabled
  /\ d.open[1].options = c.open[1].options /\ d.open[1].selected = c.open[1].selected

\* the update of c by tr rebuilds the dialog and ranking yields no option
rebuiltEmpty(c, tr) ==
  rebuilds(c, nextActive(c, tr), tr) /\ sortOptions(nextActive(c, tr), tr.doc) = << >>

\* C14: when the dialog is rebuilt and ranking yields no option, the
\* previous dialog, if there is one and some source is Pending, stays with
\* its options and selected index and is disabled; otherwise no dialog is
\* open.
C14_EmptyRebuild ==
  \A p \in seenBy :
    LET c == p[1]
        tr == p[2]
    IN rebuiltEmpty(c, tr) =>
         IF c.open # NoDialog /\ somePending(nextActive(c, tr))
         THEN keptDisabled(c, csUpdate(c, tr))
         ELSE csUpdate(c, tr).open = NoDialog

\* the fold of a result without matching option while another source is
\* Pending and a dialog is open: the dialog is kept, disabled; and a
\* selection that leaves no option and no Pending source closes the dialog
C14_Witness ==
  /\ \E p \in seenBy :
       /\ didSet(p[2]) /\ rebuiltEmpty(p[1], p[2])
       /\ p[1].open # NoDialog /\ somePending(nextActive(p[1], p[2]))
       /\ keptDisabled(p[1], csUpdate(p[1], p[2]))
  /\ \E p \in seenBy :
       /\ rebuiltEmpty(p[1], p[2]) /\ p[1].open # NoDialog
       /\ csUpdate(p[1], p[2]).open = NoDialog

\* the lists of sources that a reconfiguration may leave: the configured
\* sources with some of them removed
sourceLists ==
  {srcs \in UNION {[1 .. n -> Sources] : n \in 0 .. NumSources} :
     \A i, j \in 1 .. Len(srcs) : i < j => srcs[i] < srcs[j]}

\* no dialog is open in c when no source of c has a result or is Pending
closedWhenIdle(c) == (~someResult(c.active) /\ ~somePending(c.active)) => c.open = NoDialog

\* C15: in every reachable aggregate state without a Result and without a
\* Pending source no dialog is open, enabled or disabled; the same holds for
\* the state that a transaction reconfiguring the sources to fewer of them
\* gives.
C15_IdleHasNoDialog ==
  /\ closedWhenIdle(cs)
  /\ \A srcs \in sourceLists : closedWhenIdle(csUpdateOf(srcs, cs, NoOpTr))

\* a state with a disabled dialog in which the removal of one source, the
\* other staying configured, leaves no Result and no Pending source, and the
\* dialog is closed
C15_Witness ==
  /\ cs.open # NoDialog /\ cs.open[1].disabled
  /\ \E srcs \in sourceLists :
       LET after == csUpdateOf(srcs, cs, NoOpTr)
       IN /\ Len(srcs) = NumSources - 1
          /\ ~someResult(after.active) /\ ~somePending(after.active) /\ after.open = NoDialog

\* C16: in every reachable aggregate state without a dialog and without a
\* Pending source no source is in Result.  (Every aggregate state is the
\* outcome of one update, so a Result for which no dialog opens is returned
\* to Inactive by the update that produces it.)
C16_NoDeadResults == (cs.open = NoDialog /\ ~somePending(cs.active)) => ~someResult(cs.active)

\* a fold that installs a result none of whose options matches, all sources
\* being settled: the committed state has no dialog and no Result
C16_Witness ==
  \E p \in seenBy :
    LET active == nextActive(p[1], p[2])
        after == csUpdate(p[1], p[2])
    IN /\ didSet(p[2]) /\ someResult(active) /\ ~somePending(active)
       /\ after.open = NoDialog /\ ~someResult(after.active)

\* the indices handed to setSelectedCompletion: below -1, -1, the indices of
\* the options, and beyond them
SelectRange == (0 - 3) .. 4

\* C17 as stated: a transaction with setSelectedEffect(N) leaves the source
\* states, the options and the disabled flag of the dialog as they are, and
\* for every N the selected index it leaves is -1 or the index of an option.
C17_SetSelectedInRange ==
  cs.open # NoDialog =>
    \A N \in SelectRange :
      LET after == csUpdate(cs, EffectTr(setSelectedEffect(N)))
      IN /\ after.active = cs.active
         /\ after.open # NoDialog
         /\ after.open[1].options = cs.open[1].options
         /\ after.open[1].disabled = cs.open[1].disabled
         /\ after.open[1].selected \in (0 - 1) .. (Len(after.open[1].options) - 1)

\* the part of C17 that the code keeps: nothing but the selected index
\* changes, and an index from -1 on is taken only if an option has it
C17_SetSelectedFrame ==
  cs.open # NoDialog =>
    \A N \in SelectRange :
      LET after == csUpdate(cs, EffectTr(setSelectedEffect(N)))
      IN /\ after.active = cs.active
         /\ after.open # NoDialog
         /\ after.open[1].options = cs.open[1].options
         /\ after.open[1].disabled = cs.open[1].disabled
         /\ after.open[1].selected = (IF N >= Len(cs.open[1].options) THEN cs.open[1].selected ELSE N)

\* a command that did nothing and reported failure
refused(r) == r = [ok |-> FALSE, sys |-> sys]

C19_AbortListeners ==
  \A i \in 1 .. Len(contexts) :
    LET ctx == contexts[i]
    IN /\ \A k \in 1 .. Len(ctx.registered) :
            ctx.registered[k].calls = (IF ctx.wasAborted /\ ~ctx.registered[k].late THEN 1 ELSE 0)
       /\ ctx.wasAborted <=> ctxAborted(ctx)
       /\ ctx.wasAborted => ctxAborted(addEventListener(ctx)) /\ ctxAborted(settleQuery(ctx))

\* an aborted query with a listener registered before the abort and one
\* registered after it, and a folded query with a listener
C19_Witness ==
  /\ \E i \in 1 .. Len(contexts) :
       /\ contexts[i].wasAborted /\ Len(contexts[i].registered) = 2
       /\ ~contexts[i].registered[1].late /\ contexts[i].registered[2].late
  /\ \E i \in 1 .. Len(contexts) :
       /\ ~contexts[i].wasAborted /\ contexts[i].done /\ ~contexts[i].inRunning
       /\ Len(contexts[i].registered) > 0

\* the candidates of the source at place i of the ranked sources
candidatesOf(i) ==
  {ranking.active[i].result.options[k] : k \in 1 .. Len(ranking.active[i].result.options)}

\* the entries of the ranked list that come from the source at place i
rankedOf(i) ==
  {ranking.ranked[k] : k \in {j \in 1 .. Len(ranking.ranked) : ranking.ranked[j].source = ranking.active[i].source}}

\* C20: after sortOptions, for every source whose result is filtered, every
\* entry of the ranked list that comes from the source is one of its
\* candidates whose label the query text matches, whatever the boosts,
\* and its score is the score of the match plus its boost (plus the offset
\* of its section when it has one); every candidate
\* of the source that matches has its label in the list, as an entry of
\* this source or as the duplicate that was kept in its place.
C20_UnmatchedNeverRanked ==
  ranking.sorted /\ ~ranking.threw =>
    \A i \in 1 .. Len(ranking.active) :
      ranking.active[i].result.filter =>
        LET query == sliceDoc(ranking.doc, ranking.active[i].from, ranking.active[i].to)
        IN /\ \A o \in rankedOf(i) :
                /\ o.completion \in candidatesOf(i)
                /\ FuzzyMatch(query, o.completion.label)
                /\ o.completion.section = NoSection =>
                     o.score = FuzzyScore(query, o.completion.label) + o.completion.boost
           /\ \A c \in candidatesOf(i) :
                FuzzyMatch(query, c.label) =>
                  \E k \in 1 .. Len(ranking.ranked) : ranking.ranked[k].completion.label = c.label

\* a filtered source whose candidate with the highest boost does not match
\* and whose candidate with the lowest boost matches: the ranked list holds
\* the second only
C20_Witness ==
  /\ ranking.sorted /\ ranking.doc = <<"a">> /\ Len(ranking.active) = 1
  /\ ranking.active[1].result.filter
  /\ ranking.active[1].result.options =
       <<CompletionIn(<<"b">>, 99, NoSection), CompletionIn(<<"a">>, 0 - 99, NoSection)>>
  /\ Len(ranking.ranked) = 1
  /\ ranking.ranked[1].completion.label = <<"a">>

\* the completions of the entries of the ranked list that come from the
\* source at place i, in the order of the list
rankedFrom(i) ==
  LET entries == SelectSeq(ranking.ranked, LAMBDA o : o.source = ranking.active[i].source)
  IN [k \in 1 .. Len(entries) |-> entries[k].completion]

\* the places of the sources whose result has filter set to false
unfiltered == {i \in 1 .. Len(ranking.active) : ranking.active[i].result.filter = FALSE}

\* C21: after sortOptions every candidate of a result with filter set to
\* false is in the ranked list (an equal candidate counts), the entries that
\* come from the result follow the order the source gave, and each of them
\* stands before every entry that comes from a filtered result.
C21_UnfilteredKeptInOrder ==
  ranking.sorted /\ ~ranking.threw =>
    \A i \in unfiltered :
      /\ \A c \in candidatesOf(i) :
           \E k \in 1 .. Len(ranking.ranked) : ranking.ranked[k].completion = c
      /\ IsSubseq(rankedFrom(i), ranking.active[i].result.options)
      /\ \A k, m \in 1 .. Len(ranking.ranked) :
           /\ ranking.ranked[k].source = ranking.active[i].source
           /\ \E j \in 1 .. Len(ranking.active) :
                j \notin unfiltered /\ ranking.ranked[m].source = ranking.active[j].source
           => k < m

\* the sections of the options sortOptions has gathered, in their order of
\* rank: the section at place 1 is shown first
rankedSections ==
  LET options == collectOptions(<< >>, ranking.active, ranking.doc)
  IN sortSections(<< >>, sectionsOf(<< >>, options),
                  dynamicSectionScore([null |-> TRUE, of |-> << >>], options, ranking.active))

\* the place of the section of an entry of the ranked list; 0 without section
sectionPlace(o) ==
  IF o.completion.section = NoSection THEN 0
  ELSE CHOOSE k \in 1 .. Len(rankedSections) : rankedSections[k].name = o.completion.section.name

\* C22: in the ranked list every entry without a section stands before every
\* entry with a section, and every entry of a section stands before every
\* entry of a section of lower rank, whatever the sources (filtered or not)
\* and the boosts.
C22_SectionsInOrder ==
  ranking.sorted /\ ~ranking.threw =>
    \A k, m \in 1 .. Len(ranking.ranked) :
      sectionPlace(ranking.ranked[k]) < sectionPlace(ranking.ranked[m]) => k < m

\* the options in sorted order from which the ranked list was made
rankSorted == sortedOptions(ranking.active, ranking.doc)

\* places i..j of rankSorted are a run of duplicates: every two members
\* repeat one another, and the run cannot be extended to either side
duplicateRun(i, j) ==
  /\ \A k, m \in i .. j : k < m => duplicates(rankSorted[k].completion, rankSorted[m].completion)
  /\ i > 1 => ~duplicates(rankSorted[i - 1].completion, rankSorted[i].completion)
  /\ j < Len(rankSorted) => ~duplicates(rankSorted[j].completion, rankSorted[j + 1].completion)

\* C23: of every run of duplicates in sorted order exactly one member is
\* left in the ranked list, and its quality is the highest of the run, for
\* runs of two, three and more members.
C23_DedupeKeepsBest ==
  ranking.sorted /\ ~ranking.threw =>
    \A i, j \in 1 .. Len(rankSorted) :
      i < j /\ duplicateRun(i, j) =>
        LET kept == dedupe(<< >>, << >>, SubSeq(rankSorted, i, j))
        IN /\ Len(kept) = 1
           /\ \E k \in 1 .. Len(ranking.ranked) : ranking.ranked[k] = kept[1]
           /\ \A m \in i .. j : score(kept[1].completion) >= score(rankSorted[m].completion)

\* the results the source of a query can answer with, each with validFor
\* /^\w*$/ given together with filter: false
conflicting(q) == {Done([r EXCEPT !.validFor = "word", !.filter = FALSE]) : r \in resultsFor(q)}

\* a source of the aggregate state holds a result with validFor and
\* filter: false
holdsConflict(c) ==
  \E k \in 1 .. Len(c.active) :
    hasResult(c.active[k]) /\ c.active[k].result.filter = FALSE /\ c.active[k].result.validFor # "none"

\* C24: when a running query resolves with a result that gives validFor
\* together with filter: false, no source holds that result afterwards, and
\* so no source holds it after a further typed character either.
C24_ConflictRejected ==
  \A i \in liveQueries : \A r \in conflicting(running[i]) :
    LET withResult == resolved(sys, i, FALSE, r, FALSE)
    IN /\ ~holdsConflict(withResult.cs)
       /\ Len(doc) < MaxDocLen => \A c \in Chars : ~holdsConflict(dispatch(withResult, TypeTr(c), FALSE).cs)

\* C25: in every reachable state the completion status is "active" when the
\* list of current completions is not empty, "pending" when it is empty and
\* some source is Pending, and null otherwise.
C25_StatusFollowsCompletions ==
  completionStatus(cs) =
    (IF currentCompletions(cs) # << >> THEN "active"
     ELSE IF \E i \in 1 .. Len(cs.active) : isPending(cs.active[i]) THEN "pending"
     ELSE "null")

\* C26: a completion context that is explicit was created with the cursor
\* at the explicit position the source records; so after further characters
\* were typed behind an explicit start no context is explicit, be it the
\* context of a new query or the one given to the update function of a result.
C26_ExplicitOnlyAtExplicitPos ==
  \A k \in 1 .. Len(single.made) :
    single.made[k].explicit => single.made[k].pos = single.active.explicitPos


\* the sources that the list srcs does not configure
newSources(srcs) == {s \in Sources : \A i \in 1 .. Len(srcs) : srcs[i] # s}

\* some source of the aggregate state c is not Inactive
someActive(c) == \E i \in 1 .. Len(c.active) : c.active[i].state # "Inactive"

\* the view and plugin state after a reconfiguration to the sources srcs
\* that carries the transaction tr
reconfigured(s, srcs, tr) ==
  pluginUpdate([s EXCEPT !.doc = tr.doc, !.head = tr.head, !.cs = csUpdateOf(srcs, s.cs, tr)],
               tr, s.cs, FALSE)

\* a query for source src that has not failed is in s.running
liveQuery(s, src) ==
  \E k \in 1 .. Len(s.running) : s.running[k].active.source = src /\ ~isFailed(s.running[k])

\* C27: a source that a transaction adds to the configured sources and that
\* has no previous state starts as Pending when some source of the previous
\* aggregate state is not Inactive and as Inactive otherwise, and the
\* transaction is then applied to that state; when the transaction is a
\* mere reconfiguration and some source was not Inactive, a query for the
\* new source is in flight or the debounce timer is armed and its firing
\* starts one.
C27_NewSourceStart ==
  \A srcs \in sourceLists : \A src \in newSources(srcs) :
    LET before == reconfigured(sys, srcs, NoOpTr)
        fresh == ActiveSource(src, IF someActive(before.cs) THEN "Pending" ELSE "Inactive", -1)
        after == reconfigured(before, override, NoOpTr)
    IN /\ \A tr \in carriers \cup {EffectTr(startCompletionEffect(TRUE)), EffectTr(closeCompletionEffect)} :
            stateOf(csUpdateOf(override, before.cs, tr), src) = update(fresh, tr)
       /\ stateOf(after.cs, src) = fresh
       /\ someActive(before.cs)
            => /\ liveQuery(after, src) \/ after.debounceUpdate
               /\ liveQuery(startUpdate(after), src)

\* a source is removed while the other one has a result and an open dialog;
\* added again it is Pending and the timer for its query is armed
C27_Witness ==
  \E srcs \in sourceLists : \E src \in newSources(srcs) :
    LET before == reconfigured(sys, srcs, NoOpTr)
        after == reconfigured(before, override, NoOpTr)
    IN /\ someResult(before.cs.active) /\ before.cs.open # NoDialog
       /\ ~hasQuery(before.running, src)
       /\ isPending(stateOf(after.cs, src)) /\ after.debounceUpdate
       /\ liveQuery(startUpdate(after), src)


\* the typing of character c and the backspace, for the source followed on
\* its own
srcTypeTr(c) ==
  Transaction(single.head, applyChange(single.doc, Change(single.head, single.head, 1), <<c>>),
              single.head + 1, Change(single.head, single.head, 1), TRUE, "input.type", NoEffects)

srcBackspaceTr ==
  Transaction(single.head, applyChange(single.doc, Change(single.head - 1, single.head, 0), << >>),
              single.head - 1, Change(single.head - 1, single.head, 0), TRUE, "delete.backward", NoEffects)

srcEdits ==
  {srcTypeTr(c) : c \in {x \in LineChars : Len(single.doc) < MaxLine}}
    \cup {srcBackspaceTr : x \in {y \in {0} : single.head > 0}}

\* the cursor of tr is inside the span of the result a mapped through tr:
\* after its start (a backspace that deletes the start of the span or the
\* character before it leaves the cursor at the start) and not after its end
cursorInside(a, tr) ==
  LET from == mapPos(tr.changes, a.from, -1)
      to == mapPos(tr.changes, a.to, 1)
  IN from < tr.head /\ tr.head <= to

\* C28: for the source in Result and a typing or backspacing transaction
\* that keeps the cursor inside the mapped span: when validFor accepts the
\* text of the mapped span the source stays in Result with the same result
\* and the mapped bounds; otherwise, when the update function returns a
\* result, it stays in Result with that result and its bounds; otherwise it
\* is Pending.  It is never Inactive, whether or not activateOnTyping is
\* configured.
C28_ResultContinuation ==
  \A tr \in srcEdits :
    LET a == single.active
        now == updateWith(a, tr, getUpdateTypeIn(tr, single.typing))
        from == mapPos(tr.changes, a.from, -1)
        to == mapPos(tr.changes, a.to, 1)
        accepted == checkValid(a.result.validFor, tr.doc, from, to)
        adapted == [a.result EXCEPT !.from = from, !.to = to]
        kept == hasResult(now) /\ now.result = adapted /\ now.from = from /\ now.to = to
    IN (hasResult(a) /\ cursorInside(a, tr))
         => /\ now.state # "Inactive"
            /\ accepted => (hasResult(now) /\ now.result = a.result /\ now.from = from /\ now.to = to)
            /\ (~accepted /\ a.result.update = "keep") => kept
            /\ (~accepted /\ a.result.update = "explicit") => (kept \/ isPending(now))
            /\ (~accepted /\ a.result.update \in {"none", "null"}) => isPending(now)

\* activateOnTyping is off and the source has a result whose validFor
\* rejects the text after a typed character: with an update function that
\* answers the source stays in Result with the adapted result
C28_Witness ==
  /\ ~single.typing /\ hasResult(single.active) /\ single.active.result.update = "keep"
  /\ single.active.result.validFor = "word"
  /\ \E tr \in srcEdits :
       LET a == single.active
           now == updateWith(a, tr, getUpdateTypeIn(tr, single.typing))
       IN /\ tr.event = "input.type" /\ cursorInside(a, tr)
          /\ ~checkValid(a.result.validFor, tr.doc, mapPos(tr.changes, a.from, -1), mapPos(tr.changes, a.to, 1))
          /\ hasResult(now) /\ now.to = a.to + 1 /\ now.result.to = a.to + 1


\* a transaction with the user event of an accepted completion that changes
\* neither the document nor the selection (a completion applied by a
\* function of its own)
pickedTr == Transaction(head, doc, head, NoChange, FALSE, "input.complete", NoEffects)

\* the transactions of an update: typing, a backspace, a selection, an
\* edit without user event, an accepted completion, completion effects, or
\* nothing
updateTrs ==
  {TypeTr(c) : c \in {x \in Chars : Len(doc) < MaxDocLen}}
    \cup {BackspaceTr : x \in {y \in {0} : head > 0}}
    \cup {SelectTr(p) : p \in {0, head}}
    \cup {InsertTr(0, "a") : x \in {y \in {0} : Len(doc) < MaxDocLen}}
    \cup {DeleteTr(0) : x \in {y \in {0} : Len(doc) > 0}}
    \cup {NoOpTr, pickedTr, EffectTr(closeCompletionEffect), EffectTr(startCompletionEffect(TRUE))}

\* a hard reset: a selection change or a document edit that is no typing or
\* backspacing, or an accepted completion that activates again
hardResetIn(tr, completion) ==
  \/ (tr.selection \/ docChanged(tr)) /\ tr.event \notin {"input.type", "delete.backward"}
  \/ tr.event = "input.complete" /\ completion

hardReset(tr) == hardResetIn(tr, activateOnCompletion)

\* the query q with a backlog of MaxUpdateCount transactions
fullBacklog(q) == [q EXCEPT !.updates = [k \in 1 .. MaxUpdateCount |-> NoOpTr]]

\* the running queries that an update may abort: those that have not failed,
\* each with its backlog and with a full one
inFlight ==
  UNION {{[place |-> i, query |-> running[i]], [place |-> i, query |-> fullBacklog(running[i])]} :
           i \in {k \in 1 .. Len(running) : ~isFailed(running[k])}}

\* view.dispatch(tr) in the current state with the query f of inFlight in
\* its place; field is the completion state after tr
dispatched(f, tr, aged, field) ==
  pluginUpdate([sys EXCEPT !.doc = tr.doc, !.head = tr.head, !.cs = field, !.running[f.place] = f.query],
               tr, cs, aged)

\* what the claim says of the update of transaction tr for the query f of
\* inFlight that is older than MinAbortTime exactly if aged: it is aborted
\* exactly when tr is a hard reset or the backlog would pass MaxUpdateCount
\* and the query is aged, and else it stays with tr appended to its backlog
abortsExactly(f, tr, aged, field) ==
  LET q == f.query
      after == dispatched(f, tr, aged, field)
      abort == hardReset(tr) \/ (Len(q.updates) + 1 > MaxUpdateCount /\ aged)
  IN /\ abort <=> ~hasQuery(after.running, q.active.source)
     /\ ~abort => \E k \in 1 .. Len(after.running) :
                    after.running[k] = [q EXCEPT !.updates = Append(@, tr)]

\* the update of tr is ignored by the plugin: it changes neither the
\* selection, the document nor the completion state
ignored(tr, field) == ~tr.selection /\ ~docChanged(tr) /\ sameField(tr, cs, field)

\* the reset test agrees with the hard resets under every configuration
resetIsHardReset ==
  \A tr \in updateTrs : \A typing, completion \in BOOLEAN :
    doesResetOf(tr, getUpdateTypeWith(tr, typing, completion)) <=> hardResetIn(tr, completion)

\* C29 as stated: every update aborts a query in flight exactly when it is
\* a hard reset or the backlog of the query would grow beyond
\* MaxUpdateCount transactions and the query is older than MinAbortTime; in
\* every other case its transaction is appended to the backlog and the query
\* stays in flight.  (Queries detached earlier play no part: the states
\* without them are looked at.)
C29_AbortExactly ==
  /\ resetIsHardReset
  /\ (inFlight # {} /\ orphans = 0) =>
       \A tr \in updateTrs :
         LET field == csUpdate(cs, tr)
         IN \A f \in inFlight : \A aged \in BOOLEAN : abortsExactly(f, tr, aged, field)

\* C29 amended: the same for every update that changes the selection, the
\* document or the completion state; an update that changes none of them
\* leaves every query as it is, with nothing appended.
C29_AbortExactlyUnlessIgnored ==
  /\ resetIsHardReset
  /\ (inFlight # {} /\ orphans = 0) =>
       \A tr \in updateTrs :
         LET field == csUpdate(cs, tr)
         IN \A f \in inFlight : \A aged \in BOOLEAN :
              IF ignored(tr, field)
              THEN dispatched(f, tr, aged, field).running = [running EXCEPT ![f.place] = f.query]
              ELSE abortsExactly(f, tr, aged, field)

\* a query in flight for which typing is appended to a backlog of
\* MaxUpdateCount transactions while the query is young and aborts it once
\* it is aged, and for which a transaction without any change is ignored
C29_Witness ==
  \E f \in inFlight : \E tr \in updateTrs :
    LET field == csUpdate(cs, tr)
        young == dispatched(f, tr, FALSE, field)
    IN /\ Len(f.query.updates) = MaxUpdateCount /\ tr.event = "input.type"
       /\ ~hasQuery(dispatched(f, tr, TRUE, field).running, f.query.active.source)
       /\ \E k \in 1 .. Len(young.running) : Len(young.running[k].updates) = MaxUpdateCount + 1
       /\ ignored(NoOpTr, csUpdate(cs, NoOpTr))
       /\ dispatched(f, NoOpTr, TRUE, csUpdate(cs, NoOpTr)).running = [running EXCEPT ![f.place] = f.query]


\* the answer R of query q does not survive the replay of the backlog of q
stale(q, R) == ~hasResult(replay(acceptResult([q EXCEPT !.done = Done(R)], head), q.updates))

\* a query for the source of a that the fold has started in the current
\* state: it is unsettled, its context is at the cursor, and its backlog
\* holds at most the transaction with which the fold commits other results
restarted(after, a) ==
  \E k \in 1 .. Len(after.running) :
    LET n == after.running[k]
    IN /\ n.active = a /\ n.pos = head /\ n.explicit = (a.explicitPos = head)
       /\ n.done = Undef /\ ~isFailed(n)
       /\ \A j \in 1 .. Len(n.updates) : n.updates[j].effects[1].type = "setActive"

\* C30: when the scheduler folds a query whose result does not survive the
\* replay of its backlog, the source does not get that result; when the
\* committed state of the source is Pending a new query for it is started in
\* the current state, and when it is not Pending no query is started and the
\* state of the source stays as it is.
C30_StaleRestart ==
  \A i \in liveQueries : \A R \in resultsFor(running[i]) :
    LET src == running[i].active.source
        current == stateOf(cs, src)
        after == folded(i, R)
        now == stateOf(after.cs, src)
    IN stale(running[i], R)
         => /\ ~(hasResult(now) /\ now.result = R)
            /\ isPending(current) => restarted(after, current)
            /\ ~isPending(current) => (~hasQuery(after.running, src) /\ now = current)

\* a query with typing in its backlog whose result the typing makes stale,
\* the source being Pending: the fold starts a new query at the cursor
C30_Witness ==
  \E i \in liveQueries : \E R \in resultsFor(running[i]) :
    /\ running[i].updates # << >> /\ running[i].pos # head
    /\ stale(running[i], R)
    /\ isPending(stateOf(cs, running[i].active.source))
    /\ restarted(folded(i, R), stateOf(cs, running[i].active.source))


\* the state after the scheduler folds the answer "no result" of the query
\* at place i
foldedNull(i) == accept([sys EXCEPT !.running[i].done = Null], FALSE)

\* the backlog of query q has armed the source again: typing that activates
\* or a startCompletionEffect
rearmed(q) ==
  \E k \in 1 .. Len(q.updates) :
    (q.updates[k].event = "input.type" /\ activateOnTyping) \/ hasStart(q.updates[k])

\* C31: when the scheduler folds a query that answered "no result", the
\* source becomes Inactive exactly when its committed state is Pending and
\* the replay of the backlog from Inactive does not end in Pending; in every
\* other case its state stays as it is, and a source that the backlog has
\* armed again stays Pending.
C31_NullClearsPending ==
  \A i \in liveQueries :
    LET src == running[i].active.source
        current == stateOf(cs, src)
        cleared == replay(ActiveSource(src, "Inactive", -1), running[i].updates)
        now == stateOf(foldedNull(i).cs, src)
    IN /\ IF isPending(current) /\ ~isPending(cleared)
          THEN now = ActiveSource(src, "Inactive", -1)
          ELSE now = current
       /\ (isPending(current) /\ rearmed(running[i])) => isPending(now)

\* a Pending source whose query has typing in its backlog: the answer "no
\* result" leaves it Pending
C31_Witness ==
  \E i \in liveQueries :
    /\ isPending(stateOf(cs, running[i].active.source))
    /\ running[i].updates # << >> /\ rearmed(running[i])
    /\ isPending(stateOf(foldedNull(i).cs, running[i].active.source))


\* the sources of the queries in s.running, one entry per record
queriedSources(s) == [k \in 1 .. Len(s.running) |-> s.running[k].active.source]

\* some source of s is Pending and no record of s.running is for it
lacksQuery(s) ==
  \E i \in 1 .. Len(s.cs.active) :
    /\ s.cs.active[i].state = "Pending"
    /\ \A k \in 1 .. Len(s.running) : s.running[k].active.source # s.cs.active[i].source

typedIn(log) == \E k \in 1 .. Len(log) : log[k].event = "input.type"

\* a transaction other than typing that sets the selection is in the log
movedIn(log) == \E k \in 1 .. Len(log) : log[k].selection /\ log[k].event # "input.type"

\* after the last typing transaction of the log a transaction has set the
\* selection
movedAfterTyping(log) ==
  \E k \in 1 .. Len(log) :
    /\ log[k].event = "input.type"
    /\ \A j \in k + 1 .. Len(log) : log[j].event # "input.type"
    /\ \E j \in k + 1 .. Len(log) : log[j].selection

\* what compositionend does in the current state when restart tells whether
\* the completion is to be started again: the composition state is idle
\* afterwards, and a startCompletionEffect that is not explicit is scheduled
\* exactly if restart holds; every effect dispatched is such an effect
endsWith(restart) ==
  LET after == compositionend(composition)
  IN /\ after.composing = "None"
     /\ after.timers = IF restart THEN Append(composition.timers, startCompletionEffect(FALSE))
                       ELSE composition.timers
     /\ \A k \in 1 .. Len(composition.dispatched) : composition.dispatched[k] = startCompletionEffect(FALSE)

\* C33 as stated: a composition in which a typing transaction was seen and
\* a transaction moved the selection, in whatever order, dispatches a
\* startCompletionEffect (not explicit) when it ends; any other composition
\* dispatches nothing; the composition state is idle after the end.
C33_CompositionRestart ==
  composition.composing # "None" => endsWith(typedIn(composition.log) /\ movedIn(composition.log))

\* C33 amended: the effect is dispatched exactly if a transaction has set
\* the selection after the last typing transaction of the composition.
C33_RestartAfterMove ==
  composition.composing # "None" => endsWith(movedAfterTyping(composition.log))

\* a composition that typed, moved the selection and has ended: the effect
\* has been dispatched and the composition state is idle
C33_Witness ==
  /\ composition.composing = "None" /\ Len(composition.log) = 2
  /\ composition.log[1].event = "input.type" /\ composition.log[2].selection
  /\ composition.dispatched = <<startCompletionEffect(FALSE)>>

\* the transactions of C34: those of an update, edits without user event
\* at every position, and the effect that moves the selected option
frameTrs ==
  updateTrs \cup plainEdits \cup {EffectTr(setSelectedEffect(n)) : n \in 0 .. MaxOptions - 1}

\* the transaction sets no selection, its changed range touches the span
\* that no source in Result has after the update, it leaves the sequence of
\* results as it is and carries no setActiveEffect
quiet(tr) ==
  LET active == nextActive(cs, tr)
  IN /\ ~tr.selection
     /\ \A i \in 1 .. Len(active) :
          hasResult(active[i]) => ~touchesRange(tr.changes, active[i].from, active[i].to)
     /\ resultsOf(active) = resultsOf(cs.active)
     /\ \A k \in 1 .. Len(tr.effects) : tr.effects[k].type # "setActive"

\* the transaction carries a setSelectedEffect
selects(tr) == \E k \in 1 .. Len(tr.effects) : tr.effects[k].type = "setSelected"

\* the dialog after the transaction is the dialog before it with only the
\* anchor position mapped through the changes
framed(tr) ==
  LET before == cs.open[1]
      after == csUpdate(cs, tr).open
  IN /\ after # << >>
     /\ after[1].options = before.options
     /\ after[1].selected = before.selected
     /\ after[1].disabled = before.disabled
     /\ after[1].pos = mapPos(tr.changes, before.pos, -1)

foldTrs ==
  UNION {{setActiveTr(sys, r.updated) :
            r \in {x \in {acceptLoop(s.running, [s EXCEPT !.debounceAccept = FALSE, !.running = << >>],
                                     << >>, << >>) :
                            s \in {[sys EXCEPT !.running[i].done = Done(R)] : R \in resultsFor(running[i])}} :
                     x.updated # << >>}} :
         i \in liveQueries}

\* the selected index the claim gives a dialog with the options opts that
\* follows the dialog prev, dflt being the default index
expectedSelected(opts, prev, dflt) ==
  IF /\ prev # << >> /\ prev[1].selected # dflt /\ prev[1].selected # -1
     /\ \E i \in 1 .. Len(opts) : opts[i].completion = prev[1].options[prev[1].selected + 1].completion
  THEN (CHOOSE i \in 1 .. Len(opts) :
          /\ opts[i].completion = prev[1].options[prev[1].selected + 1].completion
          /\ \A j \in 1 .. i - 1 : opts[j].completion # prev[1].options[prev[1].selected + 1].completion) - 1
  ELSE dflt

\* the update with tr, which leaves the dialog after, builds the dialog
\* anew: it leaves an enabled dialog and makes the rebuild test
rebuilt(tr, after) ==
  /\ after # << >> /\ ~after[1].disabled
  /\ rebuilds(cs, nextActive(cs, tr), tr)

\* C35: a dialog rebuilt with a non-empty list has the default selected
\* index (0 with selectOnOpen, else -1) unless the previous dialog had a
\* selection other than the default and other than -1 whose completion is
\* in the new list; then the selected index is the first position of that
\* completion in the new list.
C35_SelectionKept ==
  \A tr \in updateTrs \cup foldTrs :
    LET after == csUpdate(cs, tr).open
    IN rebuilt(tr, after) =>
         /\ after[1].selected = expectedSelected(after[1].options, cs.open, IF selectOnOpen THEN 0 ELSE -1)
         /\ \A dflt \in {0, -1} :
              keepSelected(after[1].options, cs.open, dflt) = expectedSelected(after[1].options, cs.open, dflt)

\* a dialog whose second option is selected is rebuilt, and the option is
\* found at a position other than the default
C35_Witness ==
  /\ cs.open # << >> /\ cs.open[1].selected > 0
  /\ \E tr \in updateTrs \cup foldTrs :
       /\ rebuilt(tr, csUpdate(cs, tr).open)
       /\ csUpdate(cs, tr).open[1].selected > 0
       /\ csUpdate(cs, tr).open[1].options[csUpdate(cs, tr).open[1].selected + 1].completion
            = cs.open[1].options[cs.open[1].selected + 1].completion

\* C36: the option list of an open dialog that is not disabled is the
\* ranking of the sources in Result over the current document (the text
\* between from and to of each source).
C36_NoStaleList ==
  (cs.open # << >> /\ ~cs.open[1].disabled) => cs.open[1].options = sortOptions(cs.active, doc)

\* an enabled dialog over a source in Result whose text between from and to
\* has filtered out some of the options of its result
C36_Witness ==
  /\ cs.open # << >> /\ ~cs.open[1].disabled
  /\ \E i \in 1 .. Len(cs.active) :
       /\ hasResult(cs.active[i]) /\ cs.active[i].from < cs.active[i].to
       /\ Len(cs.open[1].options) < Len(cs.active[i].result.options)

\* source src is not Pending in the committed state, or a query for it is
\* in flight: started, not failed, and not yet folded
driven(src) ==
  \/ ~isPending(stateOf(cs, src))
  \/ \E i \in 1 .. Len(running) : running[i].active.source = src /\ ~isFailed(running[i])

\* C37: when the user and the host stop, every source that is Pending in the
\* committed state eventually has a query in flight or has left Pending,
\* the timers and the futures of the sources being fair.
C37_PendingDriven ==
  (<>[][~UserInput]_vars) => \A src \in Sources : []<>driven(src)

\* a disabled dialog of c goes with a Pending source of c
pendingWhenDisabled(c) == (c.open # << >> /\ c.open[1].disabled) => somePending(c.active)

\* C38: in every reachable aggregate state a disabled dialog exists only
\* while some source is Pending; the same holds for the state that a
\* transaction reconfiguring the sources to fewer of them gives.
C38_DisabledOnlyWhilePending ==
  /\ pendingWhenDisabled(cs)
  /\ \A srcs \in sourceLists : pendingWhenDisabled(csUpdateOf(srcs, cs, NoOpTr))

\* a disabled dialog, and an update (a transaction, or the fold of an
\* answer) that leaves no source Pending and the dialog enabled, and another
\* that leaves no source Pending and no dialog
C38_Witness ==
  /\ cs.open # << >> /\ cs.open[1].disabled
  /\ \E tr \in updateTrs \cup foldTrs :
       LET after == csUpdate(cs, tr)
       IN ~somePending(after.active) /\ after.open # << >> /\ ~after.open[1].disabled
  /\ \E tr \in updateTrs \cup foldTrs :
       LET after == csUpdate(cs, tr)
       IN ~somePending(after.active) /\ after.open = << >>

\* the span of a source in Result is in order and holds the cursor h
spanHolds(a, h) == hasResult(a) => (a.from <= a.to /\ a.from <= h /\ h <= a.to)

\* every answer a query q may get starts at or before the position of the
\* query and ends, when it gives an end, at or after it
answersAtQuery(q) ==
  \A r \in Answers(q) \ {Null} : r.res.from <= q.pos /\ (r.res.to # NoTo => r.res.to >= q.pos)

appliesAtSpan(option) ==
  LET a == stateOf(cs, option.source)
      applied == applyCompletion(sys, option, FALSE)
  IN /\ hasResult(a)
     /\ applied.ok
     /\ applied.sys.doc = SubSeq(doc, 1, a.from) \o option.completion.label \o SubSeq(doc, a.to + 1, Len(doc))

\* C40: the source of every option of an open dialog that is not disabled
\* is in Result, and applying the option (as the accept command, a commit
\* character or a click does) finds the span of the source and succeeds.
C40_OptionsHaveResult ==
  (cs.open # << >> /\ ~cs.open[1].disabled) =>
    \A k \in 1 .. Len(cs.open[1].options) : appliesAtSpan(cs.open[1].options[k])

\* an enabled dialog with options of two sources: an option that is not the
\* selected one is applied over the typed text of its source
C40_Witness ==
  /\ cs.open # << >> /\ ~cs.open[1].disabled
  /\ \E k, l \in 1 .. Len(cs.open[1].options) :
       /\ cs.open[1].options[k].source # cs.open[1].options[l].source
       /\ k - 1 # cs.open[1].selected
       /\ stateOf(cs, cs.open[1].options[k].source).from < head
       /\ appliesAtSpan(cs.open[1].options[k])

====
